---- MODULE Spec2Model ----
(***************************************************************************)
(* Tick-level model of the eatersim breadboard CPU emulator                *)
(* (src/eatersim.go): the clock, the register family, the ALU, the program *)
(* counter, the memory, the control logic and the BBCpu that wires them.   *)
(* Every board's Exec is an operator from the board's state and the values *)
(* of the cells its pointers alias to its new state (and the new bus).     *)
(***************************************************************************)
EXTENDS Integers, Naturals, Sequences, FiniteSets, TLC

VARIABLES CLK, CL, Areg, Breg, Oreg, ALU, MAR, RAM, PC, IR, BUS,
          pc, op, rstTicks, writes, ticks, arg, ret

boards == <<CLK, CL, Areg, Breg, Oreg, ALU, MAR, RAM, PC, IR, BUS>>
vars == <<CLK, CL, Areg, Breg, Oreg, ALU, MAR, RAM, PC, IR, BUS,
          pc, op, rstTicks, writes, ticks, arg, ret>>

(***************************************************************************)
(* Bounds                                                                  *)
(***************************************************************************)
\* number of bulk loads (Mem.Write) a behaviour may perform
MaxWrites == 1

\* number of iterations of the loop of Run that are followed
MaxTicks == 400

\* number of calls of Exec by one call of Instruction that are followed
MaxInstTicks == 12

\* number of bulk loads in a row on the memory board alone
MaxLoads == 2

\* number of lines of an assembler source
MaxLines == 3

(***************************************************************************)
(* Bytes                                                                   *)
(***************************************************************************)
Byte == 0..255

\* b >> 4
hi(b) == b \div 16

\* b & 0x0f
lo(b) == b % 16

\* byte addition and subtraction (Go's wrapping arithmetic on byte)
addb(a, b) == (a + b) % 256
subb(a, b) == (a - b + 256) % 256

(***************************************************************************)
(* Clk                                                                     *)
(***************************************************************************)
NewClk == [CLK |-> FALSE]

\* ClkExec toggling whatever the halt signal
ClkExecFree(c, hlt) == [c EXCEPT !.CLK = ~c.CLK]

\* ClkExec holding the level while halted instead of forcing it low
ClkExecHold(c, hlt) ==
    IF ~hlt THEN [c EXCEPT !.CLK = ~c.CLK]
            ELSE c

ClkExec(c, hlt) ==
    IF ~hlt THEN [c EXCEPT !.CLK = ~c.CLK]
            ELSE [c EXCEPT !.CLK = FALSE]

(***************************************************************************)
(* Reg, Ireg, Reg4: each Exec yields the board (b) and the bus (BUS)       *)
(***************************************************************************)
NewReg == [BUF |-> 0, clkprev |-> FALSE, clkre |-> FALSE]

\* RegExec clearing before the capture instead of after it
RegExecClearFirst(r, bus, clk, clr, ei, eo) ==
    LET clkre == clk /\ ~r.clkprev
        r1 == [r EXCEPT !.clkre = clkre, !.clkprev = clk]
        r2 == IF clr THEN [r1 EXCEPT !.BUF = 0] ELSE r1
        r3 == IF ei /\ clkre THEN [r2 EXCEPT !.BUF = bus] ELSE r2
    IN  [b |-> r3, BUS |-> IF eo THEN r3.BUF ELSE bus]

\* RegExec capturing while the clock is high instead of on its rising edge
RegExecLevel(r, bus, clk, clr, ei, eo) ==
    LET clkre == clk /\ ~r.clkprev
        r1 == [r EXCEPT !.clkre = clkre, !.clkprev = clk]
        r2 == IF ei /\ clk THEN [r1 EXCEPT !.BUF = bus] ELSE r1
        r3 == IF clr THEN [r2 EXCEPT !.BUF = 0] ELSE r2
    IN  [b |-> r3, BUS |-> IF eo THEN r3.BUF ELSE bus]

RegExec(r, bus, clk, clr, ei, eo) ==
    LET clkre == clk /\ ~r.clkprev
        r1 == [r EXCEPT !.clkre = clkre, !.clkprev = clk]
        r2 == IF ei /\ clkre THEN [r1 EXCEPT !.BUF = bus] ELSE r1
        r3 == IF clr THEN [r2 EXCEPT !.BUF = 0] ELSE r2
    IN  [b |-> r3, BUS |-> IF eo THEN r3.BUF ELSE bus]

IregExec(r, bus, clk, clr, ei, eo) ==
    LET clkre == clk /\ ~r.clkprev
        r1 == [r EXCEPT !.clkre = clkre, !.clkprev = clk]
        r2 == IF ei /\ clkre THEN [r1 EXCEPT !.BUF = bus] ELSE r1
        r3 == IF clr THEN [r2 EXCEPT !.BUF = 0] ELSE r2
    IN  [b |-> r3, BUS |-> IF eo THEN lo(r3.BUF) ELSE bus]

Reg4Exec(r, bus, clk, clr, ei) ==
    LET clkre == clk /\ ~r.clkprev
        r1 == [r EXCEPT !.clkre = clkre, !.clkprev = clk]
        r2 == IF ei /\ clkre THEN [r1 EXCEPT !.BUF = lo(bus)] ELSE r1
        r3 == IF clr THEN [r2 EXCEPT !.BUF = 0] ELSE r2
    IN  [b |-> r3, BUS |-> bus]

(***************************************************************************)
(* Mem                                                                     *)
(***************************************************************************)
NewMem == [MEM |-> [i \in 0..15 |-> 0], clkprev |-> FALSE, clkre |-> FALSE]

\* MemExec storing in every tick with memory-input asserted, edge or not
MemExecAnyTick(m, addr, bus, clk, ri, ro) ==
    LET clkre == clk /\ ~m.clkprev
        m1 == [m EXCEPT !.clkre = clkre, !.clkprev = clk]
        m2 == IF ri THEN [m1 EXCEPT !.MEM[lo(addr)] = bus] ELSE m1
    IN  [b |-> m2, BUS |-> IF ro THEN m2.MEM[lo(addr)] ELSE bus]

MemExec(m, addr, bus, clk, ri, ro) ==
    LET clkre == clk /\ ~m.clkprev
        m1 == [m EXCEPT !.clkre = clkre, !.clkprev = clk]
        m2 == IF ri /\ clkre THEN [m1 EXCEPT !.MEM[lo(addr)] = bus] ELSE m1
    IN  [b |-> m2, BUS |-> IF ro THEN m2.MEM[lo(addr)] ELSE bus]

\* Mem.Write: n is the number of bytes written, err the truncation error
MemWriteN(p) == IF Len(p) > 16 THEN 16 ELSE Len(p)

MemWriteErr(p) == Len(p) > 16

\* MemWrite clearing the cells behind a short input
MemWriteZeroFill(m, p) ==
    [m EXCEPT !.MEM = [i \in 0..15 |-> IF i < MemWriteN(p) THEN p[i + 1]
                                                          ELSE 0]]

MemWrite(m, p) ==
    [m EXCEPT !.MEM = [i \in 0..15 |-> IF i < MemWriteN(p) THEN p[i + 1]
                                                          ELSE m.MEM[i]]]

(***************************************************************************)
(* Alu                                                                     *)
(***************************************************************************)
NewAlu == [BUF |-> 0, CF |-> FALSE, ZF |-> FALSE,
           clkprev |-> FALSE, clkre |-> FALSE,
           bufCF |-> FALSE, bufZF |-> FALSE]

\* AluExec always adding, the subtract signal ignored
AluExecNoSub(a, areg, breg, bus, clk, clr, eo, su, fi) ==
    LET clkre == clk /\ ~a.clkprev
        a1 == [a EXCEPT !.clkre = clkre, !.clkprev = clk]
        a2 == IF fi /\ clkre THEN [a1 EXCEPT !.CF = a1.bufCF, !.ZF = a1.bufZF]
                             ELSE a1
        a3 == IF clr THEN [a2 EXCEPT !.CF = FALSE, !.ZF = FALSE] ELSE a2
        a4 == [a3 EXCEPT !.BUF = addb(areg, breg),
                         !.bufCF = (255 < areg + breg),
                         !.bufZF = (addb(areg, breg) = 0)]
    IN  [b |-> a4, BUS |-> IF eo THEN a4.BUF ELSE bus]

\* AluExec committing the flags of the calculation of this tick instead of
\* the pending ones
AluExecLateCommit(a, areg, breg, bus, clk, clr, eo, su, fi) ==
    LET clkre == clk /\ ~a.clkprev
        a1 == [a EXCEPT !.clkre = clkre, !.clkprev = clk]
        a2 == IF ~su
              THEN [a1 EXCEPT !.BUF = addb(areg, breg),
                              !.bufCF = (255 < areg + breg),
                              !.bufZF = (addb(areg, breg) = 0)]
              ELSE [a1 EXCEPT !.BUF = subb(areg, breg),
                              !.bufCF = (areg < breg),
                              !.bufZF = (subb(areg, breg) = 0)]
        a3 == IF fi /\ clkre THEN [a2 EXCEPT !.CF = a2.bufCF, !.ZF = a2.bufZF]
                             ELSE a2
        a4 == IF clr THEN [a3 EXCEPT !.CF = FALSE, !.ZF = FALSE] ELSE a3
    IN  [b |-> a4, BUS |-> IF eo THEN a4.BUF ELSE bus]

\* AluExec with the two's-complement carry on subtraction instead of the
\* borrow
AluExecSubCarry(a, areg, breg, bus, clk, clr, eo, su, fi) ==
    LET clkre == clk /\ ~a.clkprev
        a1 == [a EXCEPT !.clkre = clkre, !.clkprev = clk]
        a2 == IF fi /\ clkre THEN [a1 EXCEPT !.CF = a1.bufCF, !.ZF = a1.bufZF]
                             ELSE a1
        a3 == IF clr THEN [a2 EXCEPT !.CF = FALSE, !.ZF = FALSE] ELSE a2
        a4 == IF ~su
              THEN [a3 EXCEPT !.BUF = addb(areg, breg),
                              !.bufCF = (255 < areg + breg),
                              !.bufZF = (addb(areg, breg) = 0)]
              ELSE [a3 EXCEPT !.BUF = subb(areg, breg),
                              !.bufCF = (areg >= breg),
                              !.bufZF = (subb(areg, breg) = 0)]
    IN  [b |-> a4, BUS |-> IF eo THEN a4.BUF ELSE bus]

AluExec(a, areg, breg, bus, clk, clr, eo, su, fi) ==
    LET clkre == clk /\ ~a.clkprev
        a1 == [a EXCEPT !.clkre = clkre, !.clkprev = clk]
        a2 == IF fi /\ clkre THEN [a1 EXCEPT !.CF = a1.bufCF, !.ZF = a1.bufZF]
                             ELSE a1
        a3 == IF clr THEN [a2 EXCEPT !.CF = FALSE, !.ZF = FALSE] ELSE a2
        a4 == IF ~su
              THEN [a3 EXCEPT !.BUF = addb(areg, breg),
                              !.bufCF = (255 < areg + breg),
                              !.bufZF = (addb(areg, breg) = 0)]
              ELSE [a3 EXCEPT !.BUF = subb(areg, breg),
                              !.bufCF = (areg < breg),
                              !.bufZF = (subb(areg, breg) = 0)]
    IN  [b |-> a4, BUS |-> IF eo THEN a4.BUF ELSE bus]

(***************************************************************************)
(* Ctr                                                                     *)
(***************************************************************************)
NewCtr == [CNT |-> 0, clkprev |-> FALSE, clkre |-> FALSE]

\* CtrExec counting after loading instead of before
CtrExecCountAfterLoad(c, bus, clk, clr, co, j, ce) ==
    LET clkre == clk /\ ~c.clkprev
        c1 == [c EXCEPT !.clkre = clkre, !.clkprev = clk]
        c2 == IF j /\ clkre THEN [c1 EXCEPT !.CNT = lo(bus)] ELSE c1
        c3 == IF ce /\ clkre THEN [c2 EXCEPT !.CNT = lo(c2.CNT + 1)] ELSE c2
        c4 == IF clr THEN [c3 EXCEPT !.CNT = 0] ELSE c3
    IN  [b |-> c4, BUS |-> IF co THEN lo(c4.CNT) ELSE bus]

\* CtrExec loading the whole bus value instead of its low 4 bits
CtrExecLoadByte(c, bus, clk, clr, co, j, ce) ==
    LET clkre == clk /\ ~c.clkprev
        c1 == [c EXCEPT !.clkre = clkre, !.clkprev = clk]
        c2 == IF ce /\ clkre THEN [c1 EXCEPT !.CNT = lo(c1.CNT + 1)] ELSE c1
        c3 == IF j /\ clkre THEN [c2 EXCEPT !.CNT = bus] ELSE c2
        c4 == IF clr THEN [c3 EXCEPT !.CNT = 0] ELSE c3
    IN  [b |-> c4, BUS |-> IF co THEN lo(c4.CNT) ELSE bus]

CtrExec(c, bus, clk, clr, co, j, ce) ==
    LET clkre == clk /\ ~c.clkprev
        c1 == [c EXCEPT !.clkre = clkre, !.clkprev = clk]
        c2 == IF ce /\ clkre THEN [c1 EXCEPT !.CNT = lo(c1.CNT + 1)] ELSE c1
        c3 == IF j /\ clkre THEN [c2 EXCEPT !.CNT = lo(bus)] ELSE c2
        c4 == IF clr THEN [c3 EXCEPT !.CNT = 0] ELSE c3
    IN  [b |-> c4, BUS |-> IF co THEN lo(c4.CNT) ELSE bus]

(***************************************************************************)
(* Ctrl                                                                    *)
(***************************************************************************)
\* the control flags that resetFlags clears and the decode table derives
Signals == {"AI", "AO", "BI", "OI", "MI", "II", "IO", "EO", "SU", "FI",
            "CO", "J", "CE", "RI", "RO"}

NewCtrl == [Cnt |-> 0, CLR |-> FALSE, HLT |-> FALSE,
            AI |-> FALSE, AO |-> FALSE, BI |-> FALSE, OI |-> FALSE,
            MI |-> FALSE, II |-> FALSE, IO |-> FALSE,
            EO |-> FALSE, SU |-> FALSE, FI |-> FALSE,
            CO |-> FALSE, J |-> FALSE, CE |-> FALSE,
            RI |-> FALSE, RO |-> FALSE,
            clkprev |-> FALSE, clkfe |-> FALSE, clrrst |-> 0]

\* resetFlags leaving the subtract signal as it was
resetFlagsKeepSU(c) ==
    [c EXCEPT !.AI = FALSE, !.AO = FALSE, !.BI = FALSE, !.OI = FALSE,
              !.MI = FALSE, !.II = FALSE, !.IO = FALSE,
              !.EO = FALSE, !.FI = FALSE,
              !.CO = FALSE, !.J = FALSE, !.CE = FALSE,
              !.RI = FALSE, !.RO = FALSE]

resetFlags(c) ==
    [c EXCEPT !.AI = FALSE, !.AO = FALSE, !.BI = FALSE, !.OI = FALSE,
              !.MI = FALSE, !.II = FALSE, !.IO = FALSE,
              !.EO = FALSE, !.SU = FALSE, !.FI = FALSE,
              !.CO = FALSE, !.J = FALSE, !.CE = FALSE,
              !.RI = FALSE, !.RO = FALSE]

\* the cases of the switch on the instruction's high nibble (c.Cnt >= 2)
DecodeLda(c) ==
    CASE c.Cnt = 2 -> [c EXCEPT !.IO = TRUE, !.MI = TRUE]
      [] c.Cnt = 3 -> [c EXCEPT !.RO = TRUE, !.AI = TRUE]
      [] OTHER -> c

\* DecodeAdd without the flag-input signal at step 4
DecodeAddNoFlags(c) ==
    CASE c.Cnt = 2 -> [c EXCEPT !.IO = TRUE, !.MI = TRUE]
      [] c.Cnt = 3 -> [c EXCEPT !.RO = TRUE, !.BI = TRUE]
      [] c.Cnt = 4 -> [c EXCEPT !.EO = TRUE, !.AI = TRUE]
      [] OTHER -> c

DecodeAdd(c) ==
    CASE c.Cnt = 2 -> [c EXCEPT !.IO = TRUE, !.MI = TRUE]
      [] c.Cnt = 3 -> [c EXCEPT !.RO = TRUE, !.BI = TRUE]
      [] c.Cnt = 4 -> [c EXCEPT !.EO = TRUE, !.AI = TRUE, !.FI = TRUE]
      [] OTHER -> c

DecodeSub(c) ==
    CASE c.Cnt = 2 -> [c EXCEPT !.IO = TRUE, !.MI = TRUE]
      [] c.Cnt = 3 -> [c EXCEPT !.RO = TRUE, !.BI = TRUE]
      [] c.Cnt = 4 -> [c EXCEPT !.EO = TRUE, !.AI = TRUE, !.SU = TRUE,
                                !.FI = TRUE]
      [] OTHER -> c

\* DecodeSta with the memory also driving the bus at step 3
DecodeStaBusClash(c) ==
    CASE c.Cnt = 2 -> [c EXCEPT !.IO = TRUE, !.MI = TRUE]
      [] c.Cnt = 3 -> [c EXCEPT !.AO = TRUE, !.RO = TRUE, !.RI = TRUE]
      [] OTHER -> c

DecodeSta(c) ==
    CASE c.Cnt = 2 -> [c EXCEPT !.IO = TRUE, !.MI = TRUE]
      [] c.Cnt = 3 -> [c EXCEPT !.AO = TRUE, !.RI = TRUE]
      [] OTHER -> c

DecodeLdi(c) ==
    CASE c.Cnt = 2 -> [c EXCEPT !.IO = TRUE, !.AI = TRUE]
      [] OTHER -> c

DecodeJmp(c) ==
    CASE c.Cnt = 2 -> [c EXCEPT !.IO = TRUE, !.J = TRUE]
      [] OTHER -> c

\* DecodeJc asserting instruction-register-out whatever the carry flag
DecodeJcInstOut(c, cf) ==
    CASE c.Cnt = 2 -> [c EXCEPT !.IO = TRUE, !.J = cf]
      [] OTHER -> c

DecodeJc(c, cf) ==
    CASE c.Cnt = 2 /\ cf -> [c EXCEPT !.IO = TRUE, !.J = TRUE]
      [] OTHER -> c

DecodeJz(c, zf) ==
    CASE c.Cnt = 2 /\ zf -> [c EXCEPT !.IO = TRUE, !.J = TRUE]
      [] OTHER -> c

DecodeOut(c) ==
    CASE c.Cnt = 2 -> [c EXCEPT !.AO = TRUE, !.OI = TRUE]
      [] OTHER -> c

\* DecodeHlt asserting the halt latch one micro-step late
DecodeHltAtThree(c) ==
    CASE c.Cnt = 3 -> [c EXCEPT !.HLT = TRUE]
      [] OTHER -> c

DecodeHlt(c) ==
    CASE c.Cnt = 2 -> [c EXCEPT !.HLT = TRUE]
      [] OTHER -> c

\* the switch on c.Cnt and, from step 2 on, on the instruction's high nibble
CtrlDecode(c, inst, cf, zf) ==
    CASE c.Cnt = 0 -> [c EXCEPT !.CO = TRUE, !.MI = TRUE]
      [] c.Cnt = 1 -> [c EXCEPT !.RO = TRUE, !.II = TRUE, !.CE = TRUE]
      [] OTHER ->
           CASE hi(inst) = 0 -> c
             [] hi(inst) = 1 -> DecodeLda(c)
             [] hi(inst) = 2 -> DecodeAdd(c)
             [] hi(inst) = 3 -> DecodeSub(c)
             [] hi(inst) = 4 -> DecodeSta(c)
             [] hi(inst) = 5 -> DecodeLdi(c)
             [] hi(inst) = 6 -> DecodeJmp(c)
             [] hi(inst) = 7 -> DecodeJc(c, cf)
             [] hi(inst) = 8 -> DecodeJz(c, zf)
             [] hi(inst) = 14 -> DecodeOut(c)
             [] hi(inst) = 15 -> DecodeHlt(c)
             [] OTHER -> c

\* CtrlExec counting the micro instructions on rising edges instead of
\* falling ones
CtrlExecCountOnRise(c, clk, inst, cf, zf) ==
    LET clkfe == clk /\ ~c.clkprev
        c1 == [c EXCEPT !.clkfe = clkfe, !.clkprev = clk]
        c2 == IF clkfe THEN [c1 EXCEPT !.Cnt = (c1.Cnt + 1) % 256] ELSE c1
        c3 == IF c2.Cnt = 5 THEN [c2 EXCEPT !.Cnt = 0] ELSE c2
        c4 == resetFlags(c3)
        c5 == [c4 EXCEPT !.Cnt = 0, !.HLT = FALSE]
        c6 == IF c5.clrrst = 1 THEN [c5 EXCEPT !.CLR = FALSE, !.clrrst = 0]
                               ELSE c5
        c7 == IF c6.clrrst > 0 THEN [c6 EXCEPT !.clrrst = c6.clrrst - 1]
                               ELSE c6
    IN  IF c4.CLR THEN c7 ELSE CtrlDecode(c4, inst, cf, zf)

\* CtrlExec wrapping the micro instruction counter at 6 instead of 5
CtrlExecWrapAtSix(c, clk, inst, cf, zf) ==
    LET clkfe == ~clk /\ c.clkprev
        c1 == [c EXCEPT !.clkfe = clkfe, !.clkprev = clk]
        c2 == IF clkfe THEN [c1 EXCEPT !.Cnt = (c1.Cnt + 1) % 256] ELSE c1
        c3 == IF c2.Cnt = 6 THEN [c2 EXCEPT !.Cnt = 0] ELSE c2
        c4 == resetFlags(c3)
        c5 == [c4 EXCEPT !.Cnt = 0, !.HLT = FALSE]
        c6 == IF c5.clrrst = 1 THEN [c5 EXCEPT !.CLR = FALSE, !.clrrst = 0]
                               ELSE c5
        c7 == IF c6.clrrst > 0 THEN [c6 EXCEPT !.clrrst = c6.clrrst - 1]
                               ELSE c6
    IN  IF c4.CLR THEN c7 ELSE CtrlDecode(c4, inst, cf, zf)

CtrlExec(c, clk, inst, cf, zf) ==
    LET clkfe == ~clk /\ c.clkprev
        c1 == [c EXCEPT !.clkfe = clkfe, !.clkprev = clk]
        c2 == IF clkfe THEN [c1 EXCEPT !.Cnt = (c1.Cnt + 1) % 256] ELSE c1
        c3 == IF c2.Cnt = 5 THEN [c2 EXCEPT !.Cnt = 0] ELSE c2
        c4 == resetFlags(c3)
        c5 == [c4 EXCEPT !.Cnt = 0, !.HLT = FALSE]
        c6 == IF c5.clrrst = 1 THEN [c5 EXCEPT !.CLR = FALSE, !.clrrst = 0]
                               ELSE c5
        c7 == IF c6.clrrst > 0 THEN [c6 EXCEPT !.clrrst = c6.clrrst - 1]
                               ELSE c6
    IN  IF c4.CLR THEN c7 ELSE CtrlDecode(c4, inst, cf, zf)

\* Ctrl.Reset holding the reset latch for one call of Exec / for three
CtrlResetShort(c) == [c EXCEPT !.CLR = TRUE, !.clrrst = 1]

CtrlResetLong(c) == [c EXCEPT !.CLR = TRUE, !.clrrst = 3]

CtrlReset(c) == [c EXCEPT !.CLR = TRUE, !.clrrst = 2]

(***************************************************************************)
(* BBCpu: the state of all boards as one record                            *)
(***************************************************************************)
cpu == [CLK |-> CLK, CL |-> CL, Areg |-> Areg, Breg |-> Breg, Oreg |-> Oreg,
        ALU |-> ALU, MAR |-> MAR, RAM |-> RAM, PC |-> PC, IR |-> IR,
        BUS |-> BUS]

NewBBCpu == [CLK |-> NewClk, CL |-> NewCtrl, Areg |-> NewReg, Breg |-> NewReg,
             Oreg |-> NewReg, ALU |-> NewAlu, MAR |-> NewReg, RAM |-> NewMem,
             PC |-> NewCtr, IR |-> NewReg, BUS |-> 0]

\* one board's Exec on the CPU: the board reads the cells its pointers alias
\* as the boards before it left them and writes its own state and the bus
ExecCLK(s) == [s EXCEPT !.CLK = ClkExec(s.CLK, s.CL.HLT)]

ExecCL(s) ==
    [s EXCEPT !.CL = CtrlExec(s.CL, s.CLK.CLK, s.IR.BUF, s.ALU.CF, s.ALU.ZF)]

ExecAreg(s) ==
    LET r == RegExec(s.Areg, s.BUS, s.CLK.CLK, s.CL.CLR, s.CL.AI, s.CL.AO)
    IN  [s EXCEPT !.Areg = r.b, !.BUS = r.BUS]

ExecBreg(s) ==
    LET r == RegExec(s.Breg, s.BUS, s.CLK.CLK, s.CL.CLR, s.CL.BI, FALSE)
    IN  [s EXCEPT !.Breg = r.b, !.BUS = r.BUS]

ExecOreg(s) ==
    LET r == RegExec(s.Oreg, s.BUS, s.CLK.CLK, s.CL.CLR, s.CL.OI, FALSE)
    IN  [s EXCEPT !.Oreg = r.b, !.BUS = r.BUS]

ExecALU(s) ==
    LET r == AluExec(s.ALU, s.Areg.BUF, s.Breg.BUF, s.BUS, s.CLK.CLK,
                     s.CL.CLR, s.CL.EO, s.CL.SU, s.CL.FI)
    IN  [s EXCEPT !.ALU = r.b, !.BUS = r.BUS]

ExecMAR(s) ==
    LET r == Reg4Exec(s.MAR, s.BUS, s.CLK.CLK, s.CL.CLR, s.CL.MI)
    IN  [s EXCEPT !.MAR = r.b, !.BUS = r.BUS]

ExecRAM(s) ==
    LET r == MemExec(s.RAM, s.MAR.BUF, s.BUS, s.CLK.CLK, s.CL.RI, s.CL.RO)
    IN  [s EXCEPT !.RAM = r.b, !.BUS = r.BUS]

ExecPC(s) ==
    LET r == CtrExec(s.PC, s.BUS, s.CLK.CLK, s.CL.CLR, s.CL.CO, s.CL.J,
                     s.CL.CE)
    IN  [s EXCEPT !.PC = r.b, !.BUS = r.BUS]

ExecIR(s) ==
    LET r == IregExec(s.IR, s.BUS, s.CLK.CLK, s.CL.CLR, s.CL.II, s.CL.IO)
    IN  [s EXCEPT !.IR = r.b, !.BUS = r.BUS]

\* ExecBoard with the instruction register executing before the program
\* counter
ExecBoardIregFirst(i, s) ==
    CASE i = 1 -> ExecCLK(s)
      [] i = 2 -> ExecCL(s)
      [] i = 3 -> ExecAreg(s)
      [] i = 4 -> ExecBreg(s)
      [] i = 5 -> ExecOreg(s)
      [] i = 6 -> ExecALU(s)
      [] i = 7 -> ExecMAR(s)
      [] i = 8 -> ExecRAM(s)
      [] i = 9 -> ExecIR(s)
      [] i = 10 -> ExecPC(s)

\* the board that executes i-th in BBCpu.Exec
ExecBoard(i, s) ==
    CASE i = 1 -> ExecCLK(s)
      [] i = 2 -> ExecCL(s)
      [] i = 3 -> ExecAreg(s)
      [] i = 4 -> ExecBreg(s)
      [] i = 5 -> ExecOreg(s)
      [] i = 6 -> ExecALU(s)
      [] i = 7 -> ExecMAR(s)
      [] i = 8 -> ExecRAM(s)
      [] i = 9 -> ExecPC(s)
      [] i = 10 -> ExecIR(s)

\* the boards from the i-th on execute in order, each on the state x the
\* board before it left
RECURSIVE ExecFrom(_, _)
ExecFrom(i, s) ==
    IF i > 10 THEN s
    ELSE CHOOSE t \in {ExecFrom(i + 1, x) : x \in {ExecBoard(i, s)}} : TRUE

BBCpuExec(s) == ExecFrom(1, s)

BBCpuStep(s) == BBCpuExec(BBCpuExec(s))

CLReset(s) == [s EXCEPT !.CL = CtrlReset(s.CL)]

BBCpuReset(s) == BBCpuExec(BBCpuExec(CLReset(s)))

\* the loop conditions of BBCpu.Run and BBCpu.Instruction
RunDone(s) == s.CL.HLT

InstructionDone(s) == s.CL.Cnt = 4 /\ s.CLK.CLK

(***************************************************************************)
(* Memory images                                                           *)
(***************************************************************************)
\* the multiplication program as assembled: product = factor1 * factor2
MulProgram == <<29, 46, 77, 31, 60, 79, 136, 96, 29, 224, 240, 0, 1, 0, 2, 4>>

\* src2 of the example
Src2 == <<31, 46, 116, 96, 224, 240, 0, 0, 0, 0, 0, 0, 0, 0, 242, 15>>

\* every opcode, the unrecognized ones included
AllOps == <<95, 154, 77, 176, 61, 136, 192, 240, 209, 60, 124, 240, 165, 7,
            224, 240>>

\* a jump to itself, with a halt behind it that is never fetched
JmpSelf == <<96, 240, 0, 0, 0, 0, 0, 0, 0, 0, 0, 0, 0, 0, 0, 0>>

\* the images the caller of the CPU loads
Images == {Src2, AllOps}

(***************************************************************************)
(* The CPU and its caller                                                  *)
(***************************************************************************)
SetCpu(s) ==
    /\ CLK' = s.CLK /\ CL' = s.CL /\ Areg' = s.Areg /\ Breg' = s.Breg
    /\ Oreg' = s.Oreg /\ ALU' = s.ALU /\ MAR' = s.MAR /\ RAM' = s.RAM
    /\ PC' = s.PC /\ IR' = s.IR /\ BUS' = s.BUS

\* ticks since the last call of Ctrl.Reset, 3 standing for three or more
Ticked(n) == IF rstTicks + n > 3 THEN 3 ELSE rstTicks + n

Init ==
    /\ CLK = NewClk /\ CL = NewCtrl
    /\ Areg = NewReg /\ Breg = NewReg /\ Oreg = NewReg
    /\ ALU = NewAlu /\ MAR = NewReg /\ RAM = NewMem
    /\ PC = NewCtr /\ IR = NewReg /\ BUS = 0
    /\ pc = "idle"
    /\ op = "NewBBCpu"
    /\ rstTicks = 3
    /\ writes = 0
    /\ ticks = 0
    /\ arg = <<>>
    /\ ret = <<>>

\* one call of BBCpu.Exec by the operation named o
Tick(o) ==
    /\ \E t \in {BBCpuExec(cpu)} : SetCpu(t)
    /\ op' = o
    /\ rstTicks' = Ticked(1)
    /\ UNCHANGED <<writes, arg, ret, ticks>>

\* c.RAM.Write(p)
Write ==
    /\ pc = "idle"
    /\ writes < MaxWrites
    /\ \E p \in Images :
         /\ RAM' = MemWrite(RAM, p)
         /\ op' = "Write"
    /\ writes' = writes + 1
    /\ UNCHANGED <<CLK, CL, Areg, Breg, Oreg, ALU, MAR, PC, IR, BUS,
                   pc, rstTicks, ticks, arg, ret>>

\* c.HalfStep()
HalfStep ==
    /\ pc = "idle"
    /\ Tick("HalfStep")
    /\ UNCHANGED pc

\* c.Step()
Step ==
    /\ pc = "idle"
    /\ \E t \in {BBCpuStep(cpu)} : SetCpu(t)
    /\ op' = "Step"
    /\ rstTicks' = Ticked(2)
    /\ UNCHANGED <<pc, writes,
                   ticks, arg, ret>>

\* c.CL.Reset()
CtrlResetCall ==
    /\ pc = "idle"
    /\ CL' = CtrlReset(CL)
    /\ op' = "CtrlReset"
    /\ rstTicks' = 0
    /\ UNCHANGED <<CLK, Areg, Breg, Oreg, ALU, MAR, RAM, PC, IR, BUS,
                   pc, writes,
                   ticks, arg, ret>>

\* c.Reset()
Reset ==
    /\ pc = "idle"
    /\ \E t \in {BBCpuReset(cpu)} : SetCpu(t)
    /\ op' = "Reset"
    /\ rstTicks' = 2
    /\ UNCHANGED <<pc, writes,
                   ticks, arg, ret>>

\* c.Run(): the call, one iteration of the loop, the return
RunCall ==
    /\ pc = "idle"
    /\ pc' = "Run"
    /\ op' = "RunCall"
    /\ UNCHANGED <<boards, rstTicks, writes, arg, ret, ticks>>

RunLoop ==
    /\ pc = "Run"
    /\ ~RunDone(cpu)
    /\ Tick("Run")
    /\ UNCHANGED pc

RunReturn ==
    /\ pc = "Run"
    /\ RunDone(cpu)
    /\ pc' = "idle"
    /\ op' = "RunReturn"
    /\ UNCHANGED <<boards, rstTicks, writes, arg, ret, ticks>>

\* c.Instruction(): the call with its first Exec, one iteration of the
\* loop, the return
InstructionCall ==
    /\ pc = "idle"
    /\ Tick("InstructionCall")
    /\ pc' = "Instruction"

InstructionLoop ==
    /\ pc = "Instruction"
    /\ ~InstructionDone(cpu)
    /\ Tick("Instruction")
    /\ UNCHANGED pc

InstructionReturn ==
    /\ pc = "Instruction"
    /\ InstructionDone(cpu)
    /\ pc' = "idle"
    /\ op' = "InstructionReturn"
    /\ UNCHANGED <<boards, rstTicks, writes, arg, ret, ticks>>

Next ==
    \/ Write
    \/ HalfStep
    \/ Step
    \/ CtrlResetCall
    \/ Reset
    \/ RunCall
    \/ RunLoop
    \/ RunReturn
    \/ InstructionCall
    \/ InstructionLoop
    \/ InstructionReturn

Spec == Init /\ [][Next]_vars

\* the operations that are exactly one call of BBCpu.Exec
TickOps == {"HalfStep", "Run", "InstructionCall", "Instruction"}

\* the clock cell went low to high / high to low in this step
Rise == ~CLK.CLK /\ CLK'.CLK
Fall == CLK.CLK /\ ~CLK'.CLK

\* the control flags a Ctrl asserts
Asserted(c) == {s \in Signals : c[s]}

(***************************************************************************)
(* The multiplication program run to halt on a fresh CPU                   *)
(***************************************************************************)
MulLoad ==
    /\ pc = "idle"
    /\ op = "NewBBCpu"
    /\ RAM' = MemWrite(RAM, MulProgram)
    /\ op' = "Write"
    /\ writes' = writes + 1
    /\ UNCHANGED <<CLK, CL, Areg, Breg, Oreg, ALU, MAR, PC, IR, BUS,
                   pc, rstTicks, ticks, arg, ret>>

MulRun ==
    /\ op = "Write"
    /\ RunCall

\* one iteration of the loop of Run, counted
MulRunLoop ==
    /\ pc = "Run"
    /\ ~RunDone(cpu)
    /\ ticks < MaxTicks
    /\ \E t \in {BBCpuExec(cpu)} : SetCpu(t)
    /\ op' = "Run"
    /\ rstTicks' = Ticked(1)
    /\ ticks' = ticks + 1
    /\ UNCHANGED <<pc, writes, arg, ret>>

NextMul ==
    \/ MulLoad
    \/ MulRun
    \/ MulRunLoop
    \/ RunReturn

SpecMul == Init /\ [][NextMul]_vars

\* C1: with the multiplication program loaded on a fresh CPU, Run halts
\* (its loop ends after 334 calls of Exec, the halt latch asserted), and
\* whenever the halt latch is asserted the output register holds 8.
C1_MulRunsToEight ==
    /\ ticks <= 334
    /\ pc = "Run" /\ ticks = 334 => CL.HLT
    /\ CL.HLT => Oreg.BUF = 8

C1_Witness == op = "RunReturn" /\ CL.HLT /\ Oreg.BUF = 8 /\ RAM.MEM[15] = 0

(***************************************************************************)
(* The control logic board alone, its input cells set by its user          *)
(***************************************************************************)
\* instruction bytes: every high nibble with two low nibbles
InstVals == {16 * h + l : h \in 0..15, l \in {0, 9}}

CtrlTick ==
    /\ pc = "idle"
    /\ \E clk \in BOOLEAN, inst \in InstVals, cf \in BOOLEAN, zf \in BOOLEAN :
         /\ CLK' = [CLK EXCEPT !.CLK = clk]
         /\ IR' = [IR EXCEPT !.BUF = inst]
         /\ ALU' = [ALU EXCEPT !.CF = cf, !.ZF = zf]
         /\ CL' = CtrlExec(CL, clk, inst, cf, zf)
    /\ op' = "CtrlExec"
    /\ rstTicks' = Ticked(1)
    /\ UNCHANGED <<Areg, Breg, Oreg, MAR, RAM, PC, BUS, pc, writes,
                   ticks, arg, ret>>

NextCtrl ==
    \/ CtrlTick
    \/ CtrlResetCall

SpecCtrl == Init /\ [][NextCtrl]_vars

\* C2: after every control-unit tick at most one of the output enables
\* AO, IO, EO, CO, RO is asserted.
C2_SingleWriter ==
    Cardinality(Asserted(CL) \cap {"AO", "IO", "EO", "CO", "RO"}) <= 1

C2_Witness == op = "CtrlExec" /\ CL.AO /\ CL.RI /\ CL.Cnt = 3

\* the decode table as the specification gives it
C3_Table(step, opcode, cf, zf) ==
    CASE step = 0 -> {"CO", "MI"}
      [] step = 1 -> {"RO", "II", "CE"}
      [] opcode = 1 /\ step = 2 -> {"IO", "MI"}
      [] opcode = 1 /\ step = 3 -> {"RO", "AI"}
      [] opcode = 2 /\ step = 2 -> {"IO", "MI"}
      [] opcode = 2 /\ step = 3 -> {"RO", "BI"}
      [] opcode = 2 /\ step = 4 -> {"EO", "AI", "FI"}
      [] opcode = 3 /\ step = 2 -> {"IO", "MI"}
      [] opcode = 3 /\ step = 3 -> {"RO", "BI"}
      [] opcode = 3 /\ step = 4 -> {"EO", "AI", "SU", "FI"}
      [] opcode = 4 /\ step = 2 -> {"IO", "MI"}
      [] opcode = 4 /\ step = 3 -> {"AO", "RI"}
      [] opcode = 5 /\ step = 2 -> {"IO", "AI"}
      [] opcode = 6 /\ step = 2 -> {"IO", "J"}
      [] opcode = 7 /\ step = 2 /\ cf -> {"IO", "J"}
      [] opcode = 8 /\ step = 2 /\ zf -> {"IO", "J"}
      [] opcode = 14 /\ step = 2 -> {"AO", "OI"}
      [] OTHER -> {}

\* C3: in a control-unit tick with the reset latch not asserted, the set of
\* asserted control signals afterwards is exactly the decode-table entry for
\* the micro-step, the opcode and the flags of this tick; nothing asserted in
\* an earlier tick survives.
C3_SignalsAreTheTable ==
    [][(op' = "CtrlExec" /\ ~CL.CLR) =>
         Asserted(CL') = C3_Table(CL'.Cnt, hi(IR'.BUF), ALU'.CF, ALU'.ZF)]_vars

C3_Witness ==
    op = "CtrlExec" /\ rstTicks = 3 /\ CL.Cnt = 4 /\ hi(IR.BUF) = 3 /\ CL.SU

\* C4: after every control-unit tick the micro-step counter is in 0..4, and
\* in a tick with the reset latch not asserted it is the previous value plus
\* one modulo 5 on a falling clock edge and the previous value otherwise.
C4_MicroStep ==
    [][op' = "CtrlExec" =>
         /\ CL'.Cnt \in 0..4
         /\ ~CL.CLR => CL'.Cnt = IF Fall THEN (CL.Cnt + 1) % 5 ELSE CL.Cnt]_vars

C4_Witness ==
    op = "CtrlExec" /\ rstTicks = 3 /\ CL.clkfe /\ CL.Cnt = 0 /\ CL.CO

(***************************************************************************)
(* A register board alone, its input cells set by its user; a behaviour    *)
(* drives one board                                                        *)
(***************************************************************************)
\* bus values: zero, low nibble only, both nibbles, high nibble only
BusVals == {0, 15, 154, 240}

RegTick ==
    /\ pc = "idle"
    /\ op \in {"NewBBCpu", "RegExec"}
    /\ \E clk \in BOOLEAN, clr \in BOOLEAN, ei \in BOOLEAN, eo \in BOOLEAN,
          bus \in BusVals :
         LET r == RegExec(Areg, bus, clk, clr, ei, eo)
         IN  /\ CLK' = [CLK EXCEPT !.CLK = clk]
             /\ CL' = [CL EXCEPT !.CLR = clr, !.AI = ei, !.AO = eo]
             /\ Areg' = r.b
             /\ BUS' = r.BUS
    /\ op' = "RegExec"
    /\ UNCHANGED <<Breg, Oreg, ALU, MAR, RAM, PC, IR, pc,
                   rstTicks, writes, ticks, arg, ret>>

IregTick ==
    /\ pc = "idle"
    /\ op \in {"NewBBCpu", "IregExec"}
    /\ \E clk \in BOOLEAN, clr \in BOOLEAN, ei \in BOOLEAN, eo \in BOOLEAN,
          bus \in BusVals :
         LET r == IregExec(IR, bus, clk, clr, ei, eo)
         IN  /\ CLK' = [CLK EXCEPT !.CLK = clk]
             /\ CL' = [CL EXCEPT !.CLR = clr, !.II = ei, !.IO = eo]
             /\ IR' = r.b
             /\ BUS' = r.BUS
    /\ op' = "IregExec"
    /\ UNCHANGED <<Areg, Breg, Oreg, ALU, MAR, RAM, PC, pc,
                   rstTicks, writes, ticks, arg, ret>>

Reg4Tick ==
    /\ pc = "idle"
    /\ op \in {"NewBBCpu", "Reg4Exec"}
    /\ \E clk \in BOOLEAN, clr \in BOOLEAN, ei \in BOOLEAN, bus \in BusVals :
         LET r == Reg4Exec(MAR, bus, clk, clr, ei)
         IN  /\ CLK' = [CLK EXCEPT !.CLK = clk]
             /\ CL' = [CL EXCEPT !.CLR = clr, !.MI = ei]
             /\ MAR' = r.b
             /\ BUS' = r.BUS
    /\ op' = "Reg4Exec"
    /\ UNCHANGED <<Areg, Breg, Oreg, ALU, RAM, PC, IR, pc,
                   rstTicks, writes, ticks, arg, ret>>

NextReg ==
    \/ RegTick
    \/ IregTick
    \/ Reg4Tick

SpecReg == Init /\ [][NextReg]_vars

\* a tick of the board named o took the buffer from old to new with
\* enable-in ei: it changed only on a rising edge with enable-in or under
\* clear, and a rising edge with enable-in and without clear left val in it
C5_EdgeTriggered(o, old, new, ei, val) ==
    op' = o =>
      /\ new # old => ((Rise /\ ei) \/ CL'.CLR)
      /\ (Rise /\ ei /\ ~CL'.CLR) => new = val

\* C5: a register board's buffer changes in a tick only if the clock rose
\* since the previous tick with enable-in asserted or clear is asserted
\* (so toggling enable-in without a rising edge never changes it), and on a
\* rising edge with enable-in and without clear it becomes the bus value of
\* that tick, the low 4 bits of it for the address register.
C5_RegistersEdgeTriggered ==
    [][/\ C5_EdgeTriggered("RegExec", Areg.BUF, Areg'.BUF, CL'.AI, BUS')
       /\ C5_EdgeTriggered("IregExec", IR.BUF, IR'.BUF, CL'.II,
                           IF CL'.IO THEN IR'.BUF ELSE BUS')
       /\ C5_EdgeTriggered("Reg4Exec", MAR.BUF, MAR'.BUF, CL'.MI,
                           BUS' % 16)]_vars

C5_Witness == op = "Reg4Exec" /\ MAR.BUF = 10 /\ BUS = 154 /\ ~CL.CLR

(***************************************************************************)
(* The whole CPU under its stepping API (Spec)                             *)
(***************************************************************************)
\* the buffers, the counter and the committed flags are all cleared
Cleared ==
    /\ Areg.BUF = 0 /\ Breg.BUF = 0 /\ Oreg.BUF = 0
    /\ IR.BUF = 0 /\ MAR.BUF = 0 /\ PC.CNT = 0
    /\ ~ALU.CF /\ ~ALU.ZF

\* C6: in a tick of the CPU the committed carry/zero pair changes only on a
\* rising clock edge with flag-input asserted or under clear; on such an
\* edge without clear it becomes the pair that was pending before the tick,
\* which is the one of the A and B values before the A register latches the
\* ALU result; so right after step 4 of add or subtract the zero flag is set
\* iff the new A is 0 and the carry is the carry/borrow of the old operands.
C6_FlagTiming ==
    [][op' \in TickOps =>
         /\ (ALU'.CF # ALU.CF \/ ALU'.ZF # ALU.ZF) =>
              ((Rise /\ CL'.FI) \/ CL'.CLR)
         /\ (Rise /\ CL'.FI /\ ~CL'.CLR) =>
              /\ ALU'.CF = ALU.bufCF /\ ALU'.ZF = ALU.bufZF
              /\ ALU'.CF = IF CL'.SU THEN Areg.BUF < Breg.BUF
                                     ELSE Areg.BUF + Breg.BUF > 255
              /\ ALU'.ZF = (Areg'.BUF = 0)
              /\ Areg'.BUF = IF CL'.SU THEN subb(Areg.BUF, Breg.BUF)
                                       ELSE addb(Areg.BUF, Breg.BUF)
         /\ (Rise /\ CL'.Cnt = 4 /\ hi(IR.BUF) \in {2, 3} /\ ~CL'.CLR) =>
              CL'.FI /\ (CL'.SU <=> hi(IR.BUF) = 3)]_vars

C6_Witness ==
    /\ op \in TickOps /\ CLK.CLK /\ CL.Cnt = 4 /\ CL.FI /\ CL.SU
    /\ ALU.clkre /\ ALU.ZF /\ ~ALU.CF /\ Areg.BUF = 0 /\ Breg.BUF = 15

\* C7: right after Reset the halt latch and the reset latch are deasserted,
\* the micro-step is 0 and every register, the program counter and the
\* committed flags are cleared, and a second Reset leaves the complete state
\* of the CPU as the first one left it.
C7_ResetIdempotent ==
    op = "Reset" =>
      /\ ~CL.HLT /\ CL.Cnt = 0 /\ ~CL.CLR
      /\ Cleared
      /\ BBCpuReset(cpu) = cpu

C7_Witness == op = "Reset" /\ CLK.CLK /\ BUS # 0 /\ RAM.MEM[13] = 15

\* C8 as stated: after Ctrl.Reset the reset latch is asserted when the boards
\* execute in the first and in the second following tick and deasserted from
\* the third tick on.
C8_HeldThroughTwoTicks ==
    /\ rstTicks \in {1, 2} => CL.CLR
    /\ rstTicks = 3 => ~CL.CLR

\* C8 as amended: after Ctrl.Reset the reset latch stays asserted until the
\* control unit executes in the second following tick: the boards observe it
\* in the first tick only (and are cleared by it), the control unit acts on
\* it in both ticks (micro-step 0, halt deasserted, no signal asserted) and
\* deasserts it in the second, and it stays deasserted from then on.
C8_HeldUntilSecondExec ==
    /\ rstTicks \in {0, 1} => CL.CLR
    /\ rstTicks \in {1, 2} =>
         Cleared /\ CL.Cnt = 0 /\ ~CL.HLT /\ Asserted(CL) = {}
    /\ rstTicks \in {2, 3} => ~CL.CLR

C8_Witness == rstTicks = 2 /\ op = "HalfStep" /\ CLK.CLK /\ BUS # 0

\* an instruction byte whose high nibble is none of the recognized opcodes
Unknown(b) == hi(b) \in 9..13

\* C9: while an instruction with an unrecognized high nibble is in its
\* micro-steps 2-4 no control signal and no halt is asserted, no register,
\* flag or memory cell changes, the micro-step advances by one per falling
\* edge up to 4 and then to 0, and the program counter, from which the next
\* fetch proceeds, is the address the instruction was fetched from plus one
\* modulo 16.
C9_UnknownOpcodeIsNop ==
    [][(op' \in TickOps /\ Unknown(IR.BUF) /\ CL.Cnt \in 1..4) =>
         /\ CL'.Cnt \in 2..4 =>
              /\ Asserted(CL') = {} /\ ~CL'.HLT
              /\ Areg'.BUF = Areg.BUF /\ Breg'.BUF = Breg.BUF
              /\ Oreg'.BUF = Oreg.BUF /\ IR'.BUF = IR.BUF
              /\ MAR'.BUF = MAR.BUF /\ PC'.CNT = PC.CNT
              /\ ALU'.CF = ALU.CF /\ ALU'.ZF = ALU.ZF
              /\ RAM'.MEM = RAM.MEM
              /\ PC'.CNT = (MAR'.BUF + 1) % 16
         /\ (~CL.CLR /\ CL.Cnt \in 2..4) =>
              /\ CL'.Cnt = IF Fall THEN (CL.Cnt + 1) % 5 ELSE CL.Cnt
              /\ CL'.Cnt = 0 => (CL'.CO /\ BUS' = PC.CNT)]_vars

\* C10: Instruction called while the halt latch or the reset latch is
\* asserted returns immediately: after its first Exec the loop condition
\* (micro-step 4 with the clock high) ends it.
C10_InstructionReturnsImmediately ==
    [][(pc = "idle" /\ op' = "InstructionCall" /\ (CL.HLT \/ CL.CLR)) =>
         InstructionDone(cpu)']_vars
(***************************************************************************)
(* Instruction called on a CPU that is not halted, its calls of Exec       *)
(* counted (SpecInst)                                                      *)
(***************************************************************************)
\* c.Instruction() with the halt latch deasserted: the call with its first
\* Exec
InstCall ==
    /\ pc = "idle"
    /\ ~CL.HLT
    /\ \E t \in {BBCpuExec(cpu)} : SetCpu(t)
    /\ pc' = "Instruction"
    /\ op' = "InstructionCall"
    /\ rstTicks' = Ticked(1)
    /\ ticks' = 1
    /\ UNCHANGED <<writes, arg, ret>>

\* one iteration of the loop of Instruction, counted
InstLoop ==
    /\ pc = "Instruction"
    /\ ~InstructionDone(cpu)
    /\ ticks < MaxInstTicks
    /\ \E t \in {BBCpuExec(cpu)} : SetCpu(t)
    /\ op' = "Instruction"
    /\ rstTicks' = Ticked(1)
    /\ ticks' = ticks + 1
    /\ UNCHANGED <<pc, writes, arg, ret>>

InstReturn ==
    /\ pc = "Instruction"
    /\ InstructionDone(cpu)
    /\ pc' = "idle"
    /\ op' = "InstructionReturn"
    /\ ticks' = 0
    /\ UNCHANGED <<boards, rstTicks, writes, arg, ret>>

NextInst ==
    \/ Write
    \/ HalfStep
    \/ Step
    \/ CtrlResetCall
    \/ Reset
    \/ InstCall
    \/ InstLoop
    \/ InstReturn

SpecInst == Init /\ [][NextInst]_vars

\* C11: Instruction called in a state that is not halted returns after at
\* least one and at most ten calls of Exec (its loop never reaches ten calls
\* with its exit condition still false), and when it has returned the
\* micro-step is 4 and the clock is high.
C11_InstructionTerminates ==
    /\ pc = "Instruction" =>
         /\ ticks \in 1..10
         /\ ticks = 10 => InstructionDone(cpu)
    /\ op = "InstructionReturn" => (CL.Cnt = 4 /\ CLK.CLK)
(***************************************************************************)
(* Run on a program that halts and on one that does not (SpecRun)          *)
(***************************************************************************)
RunImages == {Src2, JmpSelf}

\* c.RAM.Write(p) on the new CPU
RunLoad ==
    /\ pc = "idle"
    /\ op = "NewBBCpu"
    /\ \E p \in RunImages : RAM' = MemWrite(RAM, p)
    /\ op' = "Write"
    /\ writes' = writes + 1
    /\ UNCHANGED <<CLK, CL, Areg, Breg, Oreg, ALU, MAR, PC, IR, BUS,
                   pc, rstTicks, ticks, arg, ret>>

NextRun ==
    \/ RunLoad
    \/ HalfStep
    \/ Step
    \/ CtrlResetCall
    \/ Reset
    \/ RunCall
    \/ RunLoop
    \/ RunReturn

SpecRun == Init /\ [][NextRun]_vars

\* C12: the halt latch is asserted exactly when the control unit is at
\* micro-step 2 of an instruction with opcode 0xF, and Run has returned only
\* with the halt latch asserted; with the jump-to-itself program loaded the
\* halt latch is asserted in no reachable state and Run never returns.
C12_RunReturnsIffHalt ==
    /\ CL.HLT <=> (CL.Cnt = 2 /\ hi(IR.BUF) = 15)
    /\ op = "RunReturn" => CL.HLT
    /\ RAM.MEM[0] = JmpSelf[1] => (~CL.HLT /\ op # "RunReturn")

C12_Witness ==
    op = "RunReturn" /\ CL.HLT /\ RAM.MEM[0] = Src2[1] /\ Oreg.BUF = 1
\* C13 as stated: at micro-step 2 of jump-if-carry (0x7) instruction-
\* register-out is asserted, and jump-load is asserted iff the committed
\* carry flag is set; likewise jump-if-zero (0x8) with the zero flag; at
\* micro-steps 3 and 4 of both no signal is asserted.
C13_InstOutAndJumpIffFlag ==
    op = "CtrlExec" =>
      /\ (hi(IR.BUF) = 7 /\ CL.Cnt = 2) => (CL.IO /\ (CL.J <=> ALU.CF))
      /\ (hi(IR.BUF) = 8 /\ CL.Cnt = 2) => (CL.IO /\ (CL.J <=> ALU.ZF))
      /\ (hi(IR.BUF) \in {7, 8} /\ CL.Cnt \in {3, 4}) => Asserted(CL) = {}

\* C13 as amended: at micro-step 2 of jump-if-carry (0x7) instruction-
\* register-out and jump-load are asserted together, and nothing else, iff
\* the committed carry flag is set, and no signal at all is asserted when it
\* is clear; likewise jump-if-zero (0x8) with the zero flag; at micro-steps 3
\* and 4 of both no signal is asserted.
C13_JumpSignalsIffFlag ==
    op = "CtrlExec" =>
      /\ (hi(IR.BUF) = 7 /\ CL.Cnt = 2) =>
           Asserted(CL) = IF ALU.CF THEN {"IO", "J"} ELSE {}
      /\ (hi(IR.BUF) = 8 /\ CL.Cnt = 2) =>
           Asserted(CL) = IF ALU.ZF THEN {"IO", "J"} ELSE {}
      /\ (hi(IR.BUF) \in {7, 8} /\ CL.Cnt \in {3, 4}) => Asserted(CL) = {}

C13_Witness ==
    /\ op = "CtrlExec" /\ hi(IR.BUF) = 7 /\ CL.Cnt = 2 /\ ~CL.HLT
    /\ ~ALU.CF /\ ALU.ZF /\ Asserted(CL) = {}
(***************************************************************************)
(* The clock, the program counter and the memory's bulk load alone, their  *)
(* input cells set by their user; a behaviour drives one board (SpecBrd)   *)
(***************************************************************************)
ClkTick ==
    /\ pc = "idle"
    /\ op \in {"NewBBCpu", "ClkExec"}
    /\ \E hlt \in BOOLEAN :
         /\ CL' = [CL EXCEPT !.HLT = hlt]
         /\ CLK' = ClkExec(CLK, hlt)
    /\ op' = "ClkExec"
    /\ UNCHANGED <<Areg, Breg, Oreg, ALU, MAR, RAM, PC, IR, BUS, pc,
                   rstTicks, writes, ticks, arg, ret>>

\* the counter's Exec with the bus value (arg) and the signals given
CtrCall(bus, clk, clr, co, j, ce) ==
    LET r == CtrExec(PC, bus, clk, clr, co, j, ce)
    IN  /\ CLK' = [CLK EXCEPT !.CLK = clk]
        /\ CL' = [CL EXCEPT !.CLR = clr, !.CO = co, !.J = j, !.CE = ce]
        /\ PC' = r.b
        /\ BUS' = r.BUS
        /\ arg' = bus
        /\ op' = "CtrExec"
        /\ UNCHANGED <<Areg, Breg, Oreg, ALU, MAR, RAM, IR, pc,
                       rstTicks, writes, ticks, ret>>

CtrTick ==
    /\ pc = "idle"
    /\ op \in {"NewBBCpu", "CtrExec"}
    /\ \E clk \in BOOLEAN, clr \in BOOLEAN, co \in BOOLEAN, j \in BOOLEAN,
          ce \in BOOLEAN, bus \in BusVals :
         CtrCall(bus, clk, clr, co, j, ce)

\* a rising edge with load asserted and any byte on the bus
CtrLoad ==
    /\ pc = "idle"
    /\ op \in {"NewBBCpu", "CtrExec"}
    /\ ~CLK.CLK
    /\ \E ce \in BOOLEAN, bus \in Byte :
         CtrCall(bus, TRUE, FALSE, FALSE, TRUE, ce)

\* inputs of the bulk load: shorter than, as long as and longer than the
\* memory, their bytes nonzero and different from input to input
Lens == {0, 1, 5, 15, 16, 17, 20}

Payloads == {[i \in 1..n |-> k + i] : n \in Lens, k \in {100, 200}}

\* n, err := m.Write(p)
MemWriteCall ==
    /\ pc = "idle"
    /\ op \in {"NewBBCpu", "MemWrite"}
    /\ writes < MaxLoads
    /\ \E p \in Payloads :
         /\ RAM' = MemWrite(RAM, p)
         /\ arg' = p
         /\ ret' = [n |-> MemWriteN(p), err |-> MemWriteErr(p)]
    /\ op' = "MemWrite"
    /\ writes' = writes + 1
    /\ UNCHANGED <<CLK, CL, Areg, Breg, Oreg, ALU, MAR, PC, IR, BUS, pc,
                   rstTicks, ticks>>

NextBrd ==
    \/ ClkTick
    \/ CtrTick
    \/ CtrLoad
    \/ MemWriteCall

SpecBrd == Init /\ [][NextBrd]_vars

\* C14: the clock level after a tick of the clock is the negation of the
\* level before it when the halt input is false, and low when the halt input
\* is true, whatever the level before.
C14_ClockTogglesOrStops ==
    [][op' = "ClkExec" =>
         CLK'.CLK = IF CL'.HLT THEN FALSE ELSE ~CLK.CLK]_vars

C14_Witness == op = "ClkExec" /\ CL.HLT /\ ~CLK.CLK

\* C15: the program counter is in 0..15 after every tick of the counter; on
\* a rising edge with count-enable asserted and neither load nor clear it
\* becomes the value before plus one modulo 16 (15 becomes 0); on a rising
\* edge with load asserted and clear not it becomes the low 4 bits of the
\* bus value, for every byte on the bus.
C15_CounterWrapsAndLoads ==
    [][op' = "CtrExec" =>
         /\ PC'.CNT \in 0..15
         /\ (Rise /\ CL'.CE /\ ~CL'.J /\ ~CL'.CLR) =>
              /\ PC'.CNT = (PC.CNT + 1) % 16
              /\ PC.CNT = 15 => PC'.CNT = 0
         /\ (Rise /\ CL'.J /\ ~CL'.CLR) => PC'.CNT = arg' % 16]_vars

C15_Witness ==
    op = "CtrExec" /\ PC.clkre /\ CL.J /\ ~CL.CLR /\ arg = 250 /\ PC.CNT = 10

\* C16: a bulk load of n bytes with n > 16 puts the first 16 bytes in cells
\* 0..15 and reports the truncation error with count 16; with n <= 16 it
\* puts the input in cells 0..n-1, leaves cells n..15 as they were and
\* reports no error.
C16_BulkLoadTruncates ==
    [][op' = "MemWrite" =>
         IF Len(arg') > 16
         THEN /\ \A i \in 0..15 : RAM'.MEM[i] = arg'[i + 1]
              /\ ret'.err /\ ret'.n = 16
         ELSE /\ \A i \in 0..15 :
                   RAM'.MEM[i] = IF i < Len(arg') THEN arg'[i + 1]
                                                  ELSE RAM.MEM[i]
              /\ ~ret'.err]_vars

C16_Witness ==
    /\ op = "MemWrite" /\ writes = 2 /\ Len(arg) = 5 /\ ~ret.err
    /\ RAM.MEM[4] = 105 /\ RAM.MEM[5] = 206 /\ RAM.MEM[15] = 216

\* C21: on a rising edge of the program counter with load and count-enable
\* both asserted and clear not, the counter afterwards is the low 4 bits of
\* the bus value: the load replaces the increment.
C21_LoadOverridesCount ==
    [][(op' = "CtrExec" /\ PC'.clkre /\ CL'.J /\ CL'.CE /\ ~CL'.CLR) =>
         PC'.CNT = arg' % 16]_vars

C21_Witness ==
    /\ op = "CtrExec" /\ PC.clkre /\ CL.J /\ CL.CE /\ ~CL.CLR
    /\ arg = 154 /\ PC.CNT = 10 /\ CL.CO /\ BUS = 10
(***************************************************************************)
(* The ALU alone, its input cells set by its user (SpecAlu)                *)
(***************************************************************************)
\* operands (A, B) of the repeated ticks: sums with and without carry,
\* differences with and without borrow, results zero and nonzero
OperandPairs == {<<0, 0>>, <<1, 0>>, <<255, 1>>, <<1, 255>>, <<200, 100>>}

\* the ALU's Exec with the A and B cells and the signals given
AluCall(a, b, clk, clr, eo, su, fi) ==
    LET r == AluExec(ALU, a, b, BUS, clk, clr, eo, su, fi)
    IN  /\ Areg' = [Areg EXCEPT !.BUF = a]
        /\ Breg' = [Breg EXCEPT !.BUF = b]
        /\ CLK' = [CLK EXCEPT !.CLK = clk]
        /\ CL' = [CL EXCEPT !.CLR = clr, !.EO = eo, !.SU = su, !.FI = fi]
        /\ ALU' = r.b
        /\ BUS' = r.BUS
        /\ UNCHANGED <<Oreg, MAR, RAM, PC, IR, pc, rstTicks, writes, ticks,
                       arg, ret>>

AluTick ==
    /\ pc = "idle"
    /\ op \in {"NewBBCpu", "AluExec"}
    /\ \E ab \in OperandPairs, clk \in BOOLEAN, clr \in BOOLEAN,
          eo \in BOOLEAN, su \in BOOLEAN, fi \in BOOLEAN :
         AluCall(ab[1], ab[2], clk, clr, eo, su, fi)
    /\ op' = "AluExec"

\* the first tick of a new ALU with every pair of bytes as operands
AluSweep ==
    /\ pc = "idle"
    /\ op = "NewBBCpu"
    /\ \E a \in Byte, b \in Byte, clk \in BOOLEAN, su \in BOOLEAN :
         AluCall(a, b, clk, FALSE, FALSE, su, FALSE)
    /\ op' = "AluSweep"

NextAlu ==
    \/ AluTick
    \/ AluSweep

SpecAlu == Init /\ [][NextAlu]_vars

\* C17: after every tick of the ALU, with or without a clock edge, the live
\* result is (A + B) mod 256 and the pending carry is (A + B > 255) when
\* subtract-select is false, the live result is (A - B) mod 256 and the
\* pending carry is the borrow (A < B) when it is true, and the pending zero
\* is (result = 0) in both cases.
C17_AluArithmetic ==
    op \in {"AluExec", "AluSweep"} =>
      /\ ~CL.SU => /\ ALU.BUF = (Areg.BUF + Breg.BUF) % 256
                   /\ ALU.bufCF = (Areg.BUF + Breg.BUF > 255)
      /\ CL.SU => /\ ALU.BUF = (Areg.BUF - Breg.BUF) % 256
                  /\ ALU.bufCF = (Areg.BUF < Breg.BUF)
      /\ ALU.bufZF = (ALU.BUF = 0)

C17_Witness ==
    /\ op = "AluExec" /\ ~CLK.CLK /\ ~ALU.clkprev /\ ~ALU.clkre /\ ALU.CF
    /\ CL.SU /\ Areg.BUF = 1 /\ Breg.BUF = 255 /\ ALU.BUF = 2
    /\ ALU.bufCF /\ ~ALU.bufZF
(***************************************************************************)
(* The assembler (package assembler of src/eatersim.go).  A string is a    *)
(* sequence of one-character strings, "" is <<>>.  A result carries st:    *)
(* "ok" (error nil), "err" (error returned, msg its kind) or "panic" (the  *)
(* Go runtime panicked: index out of range).                               *)
(***************************************************************************)
\* the instr codes of a codeline
dotOrg == 1
dotByte == 2
label == 9
symbol == 10
noCode == 255
nop == 0
lda == 16
add == 32
sub == 48
sta == 64
ldi == 80
jmp == 96
jc == 112
jz == 128
out == 224
hlt == 240

\* codeline{instr: i} with the zero value and the empty label
Codeline(i) == [instr |-> i, value |-> 0, label |-> <<>>]

Ok(c) == [st |-> "ok", msg |-> "", cl |-> c]

Err(c, m) == [st |-> "err", msg |-> m, cl |-> c]

Panic == [st |-> "panic", msg |-> "index out of range", cl |-> Codeline(noCode)]

\* strings.Split(s, sep) for a one-character sep, from the i-th character
\* on: acc holds the pieces that are complete, cur the piece that is open
RECURSIVE SplitFrom(_, _, _, _, _)
SplitFrom(s, sep, i, cur, acc) ==
    IF i > Len(s) THEN Append(acc, cur)
    ELSE IF s[i] = sep THEN SplitFrom(s, sep, i + 1, <<>>, Append(acc, cur))
    ELSE SplitFrom(s, sep, i + 1, Append(cur, s[i]), acc)

Split(s, sep) == SplitFrom(s, sep, 1, <<>>, <<>>)

\* strings.Trim(s, cutset): s without its leading and trailing characters
\* that are in cutset
Trim(s, cutset) ==
    LET keep == {i \in 1..Len(s) : s[i] \notin cutset}
    IN  IF keep = {} THEN <<>>
        ELSE SubSeq(s, CHOOSE i \in keep : \A j \in keep : i <= j,
                       CHOOSE i \in keep : \A j \in keep : j <= i)

\* strings.TrimSpace(s)
TrimSpace(s) == Trim(s, {" ", "\t", "\r"})

\* strings.ToLower(s), on the letters A to Z
LowerOf(c) ==
    CASE c = "A" -> "a" [] c = "B" -> "b" [] c = "C" -> "c" [] c = "D" -> "d"
      [] c = "E" -> "e" [] c = "F" -> "f" [] c = "G" -> "g" [] c = "H" -> "h"
      [] c = "I" -> "i" [] c = "J" -> "j" [] c = "K" -> "k" [] c = "L" -> "l"
      [] c = "M" -> "m" [] c = "N" -> "n" [] c = "O" -> "o" [] c = "P" -> "p"
      [] c = "Q" -> "q" [] c = "R" -> "r" [] c = "S" -> "s" [] c = "T" -> "t"
      [] c = "U" -> "u" [] c = "V" -> "v" [] c = "W" -> "w" [] c = "X" -> "x"
      [] c = "Y" -> "y" [] c = "Z" -> "z"
      [] OTHER -> c

RECURSIVE ToLower(_)
ToLower(s) ==
    IF s = <<>> THEN <<>> ELSE <<LowerOf(Head(s))>> \o ToLower(Tail(s))

\* trimcomments: the line up to its first semicolon
trimcomments(lns) ==
    IF \E i \in 1..Len(lns) : lns[i] = ";"
    THEN SubSeq(lns, 1, (CHOOSE i \in 1..Len(lns) :
                           /\ lns[i] = ";"
                           /\ \A j \in 1..(i - 1) : lns[j] # ";") - 1)
    ELSE lns

\* toSingleSpace from the i-th character on: every whitespace character
\* becomes a space, and a space that follows a space is left out (acc holds
\* the result so far)
RECURSIVE toSingleSpaceFrom(_, _, _)
toSingleSpaceFrom(s, i, acc) ==
    IF i > Len(s) THEN acc
    ELSE IF s[i] \in {" ", "\t", "\r"}
    THEN toSingleSpaceFrom(s, i + 1,
                           IF acc # <<>> /\ acc[Len(acc)] = " " THEN acc
                           ELSE Append(acc, " "))
    ELSE toSingleSpaceFrom(s, i + 1, Append(acc, s[i]))

toSingleSpace(s) == toSingleSpaceFrom(s, 1, <<>>)

\* the value of a digit character, 99 for a character that is no digit
DigitVal(c) ==
    CASE c = "0" -> 0 [] c = "1" -> 1 [] c = "2" -> 2 [] c = "3" -> 3
      [] c = "4" -> 4 [] c = "5" -> 5 [] c = "6" -> 6 [] c = "7" -> 7
      [] c = "8" -> 8 [] c = "9" -> 9
      [] c \in {"a", "A"} -> 10 [] c \in {"b", "B"} -> 11
      [] c \in {"c", "C"} -> 12 [] c \in {"d", "D"} -> 13
      [] c \in {"e", "E"} -> 14 [] c \in {"f", "F"} -> 15
      [] OTHER -> 99

\* unicode.IsDigit
IsDigit(c) == DigitVal(c) < 10

\* the number a digit string denotes in the base
RECURSIVE DigitsVal(_, _)
DigitsVal(s, base) ==
    IF s = <<>> THEN 0
    ELSE DigitsVal(SubSeq(s, 1, Len(s) - 1), base) * base + DigitVal(s[Len(s)])

\* strconv.ParseUint(s, base, bitSize): r the number and e = FALSE, or a
\* syntax error (r = 0), or a range error (r the largest value of bitSize bits)
ParseUint(s, base, bitSize) ==
    IF s = <<>> \/ \E i \in 1..Len(s) : DigitVal(s[i]) >= base
    THEN [r |-> 0, e |-> TRUE]
    ELSE IF DigitsVal(s, base) > 2 ^ bitSize - 1
         THEN [r |-> 2 ^ bitSize - 1, e |-> TRUE]
         ELSE [r |-> DigitsVal(s, base), e |-> FALSE]

\* decodeVal as if it parsed every value as a byte whatever the bitSize
decodeValByte(s, bitSize) ==
    LET p == CASE s[1] = "$" -> ParseUint(Tail(s), 16, 8)
               [] s[1] = "%" -> ParseUint(Tail(s), 2, 8)
               [] OTHER -> ParseUint(s, 10, 8)
    IN  [r |-> p.r % 256, e |-> p.e]

\* decodeVal(s, bitSize), s not empty: byte(r) and the error of ParseUint
decodeVal(s, bitSize) ==
    LET p == CASE s[1] = "$" -> ParseUint(Tail(s), 16, bitSize)
               [] s[1] = "%" -> ParseUint(Tail(s), 2, bitSize)
               [] OTHER -> ParseUint(s, 10, bitSize)
    IN  [r |-> p.r % 256, e |-> p.e]

\* checkSymbol(s): the first reserved character of s, "" if there is none
checkSymbol(s) ==
    LET bad == {i \in 1..Len(s) : s[i] \in {"$", "#", ".", ";", "=", " ", "%"}}
    IN  IF bad = {} THEN <<>>
        ELSE <<s[CHOOSE i \in bad : \A j \in bad : i <= j]>>
\* the instr code of a lower-case mnemonic, noCode for any other word
InstrOf(w) ==
    CASE w = <<"n", "o", "p">> -> nop
      [] w = <<"l", "d", "a">> -> lda
      [] w = <<"a", "d", "d">> -> add
      [] w = <<"s", "u", "b">> -> sub
      [] w = <<"s", "t", "a">> -> sta
      [] w = <<"l", "d", "i">> -> ldi
      [] w = <<"j", "m", "p">> -> jmp
      [] w = <<"j", "c">> -> jc
      [] w = <<"j", "z">> -> jz
      [] w = <<"o", "u", "t">> -> out
      [] w = <<"h", "l", "t">> -> hlt
      [] OTHER -> noCode

\* the bit size decodeInstr passes to decodeVal
operandBits == 4

\* decodeInstr(ln).  For an instruction that takes an operand, a number of
\* parameters other than one sets instr to noCode and the error and goes
\* on: ss[1] panics when there is no parameter, and the result of decodeVal
\* replaces the error when the first parameter is a literal.
decodeInstr(ln) ==
    LET ss == Split(ln, " ")
        i == InstrOf(ToLower(ss[1]))
        cl == Codeline(IF Len(ss) # 2 THEN noCode ELSE i)
    IN  CASE i = noCode -> Err(Codeline(noCode), "unknown instruction")
          [] i \in {nop, out, hlt} ->
               IF Len(ss) > 1
               THEN Err(Codeline(noCode), "unexpected parameters")
               ELSE Ok(Codeline(i))
          [] OTHER ->
               IF Len(ss) < 2 \/ ss[2] = <<>> THEN Panic
               ELSE IF ss[2][1] \in {"$", "%"} \/ IsDigit(ss[2][1])
               THEN IF decodeVal(ss[2], operandBits).e
                    THEN Err(Codeline(noCode), "value")
                    ELSE Ok([cl EXCEPT
                               !.value = decodeVal(ss[2], operandBits).r])
               ELSE IF checkSymbol(ss[2]) # <<>>
               THEN Err(Codeline(noCode), "illegal character")
               ELSE IF Len(ss) # 2
               THEN Err([cl EXCEPT !.label = ss[2]], "expecting 1 parameter")
               ELSE Ok([cl EXCEPT !.label = ss[2]])

\* decodeDotDir(ln)
decodeDotDir(ln) ==
    LET ss == Split(ln, " ")
        d == ToLower(ss[1])
        i == CASE d = <<".", "o", "r", "g">> -> dotOrg
               [] d = <<".", "b", "y", "t", "e">> -> dotByte
               [] OTHER -> noCode
    IN  IF Len(ss) # 2
        THEN Err(Codeline(noCode), "incorrect number of parameters")
        ELSE IF i = noCode THEN Err(Codeline(noCode), "unknown dot-directive")
        ELSE IF ss[2] = <<>> THEN Panic
        ELSE IF decodeVal(ss[2], 8).e THEN Err(Codeline(noCode), "value")
        ELSE Ok([Codeline(i) EXCEPT !.value = decodeVal(ss[2], 8).r])

\* decodeSymbol(ln).  The codeline of a symbol statement gets the instr code
\* and the value; its label field is never assigned and stays "".
decodeSymbol(ln) ==
    LET eq == Split(ln, "=")
        nm == Trim(eq[1], {" "})
        vl == Trim(eq[2], {" "})
        lb == Trim(ln, {":", " "})
    IN  IF \E k \in 1..Len(ln) : ln[k] = "="
        THEN IF Len(eq) # 2
             THEN Err(Codeline(noCode), "more than one equal sign")
             ELSE IF checkSymbol(nm) # <<>>
             THEN Err(Codeline(noCode), "illegal character")
             ELSE IF vl = <<>> THEN Panic
             ELSE IF decodeVal(vl, 8).e THEN Err(Codeline(noCode), "value")
             ELSE Ok([Codeline(symbol) EXCEPT !.value = decodeVal(vl, 8).r])
        ELSE IF \E k \in 1..Len(ln) : ln[k] = ":"
        THEN IF Cardinality({k \in 1..Len(ln) : ln[k] = ":"}) # 1
             THEN Err(Codeline(noCode), "more than one colon")
             ELSE IF checkSymbol(lb) # <<>>
             THEN Err(Codeline(noCode), "illegal character")
             ELSE Ok([Codeline(label) EXCEPT !.label = lb])
        ELSE Err(Codeline(noCode), "left justified text")

\* decodeln(ln)
decodeln(ln) ==
    LET s == toSingleSpace(trimcomments(ln))
    IN  CASE Len(s) = 0 -> Ok(Codeline(noCode))
          [] Len(s) = 1 -> IF s[1] # " "
                           THEN Err(Codeline(noCode), "error decoding")
                           ELSE Ok(Codeline(noCode))
          [] OTHER ->
               IF s[1] = " " /\ s[2] = "." THEN decodeDotDir(TrimSpace(s))
               ELSE IF s[1] = " " THEN decodeInstr(TrimSpace(s))
               ELSE decodeSymbol(TrimSpace(s))

\* a codeline that decode keeps
IsCode(c) == c.instr # noCode

\* the loop of decode from the k-th line on: cls holds the codelines kept
RECURSIVE decodeFrom(_, _, _)
decodeFrom(lns, k, cls) ==
    IF k > Len(lns) THEN [st |-> "ok", msg |-> "", cls |-> cls]
    ELSE CHOOSE t \in
           {IF r.st # "ok" THEN [st |-> r.st, msg |-> r.msg, cls |-> <<>>]
            ELSE decodeFrom(lns, k + 1,
                            IF IsCode(r.cl) THEN Append(cls, r.cl) ELSE cls) :
              r \in {decodeln(lns[k])}} : TRUE

\* decode(src): the codelines of the lines of src, those with noCode left
\* out; the first line that fails ends it
decode(src) ==
    CHOOSE t \in {decodeFrom(lns, 1, <<>>) : lns \in {Split(src, "\n")}} : TRUE

\* a | b on bytes
RECURSIVE orb(_, _)
orb(a, b) ==
    IF a = 0 THEN b
    ELSE IF b = 0 THEN a
    ELSE 2 * orb(a \div 2, b \div 2) + (IF a % 2 = 1 \/ b % 2 = 1 THEN 1 ELSE 0)

\* the instr codes of the instructions without and with an operand
NoOperand == {nop, out, hlt}

WithOperand == {lda, add, sub, sta, ldi, jmp, jc, jz}

\* cl.mapLabel(&raddr, &labels): the new raddr and labels
mapLabel(cl, raddr, labels) ==
    CASE cl.instr \in {label, symbol} ->
           IF cl.label \in DOMAIN labels
           THEN [st |-> "err", msg |-> "duplicate label",
                 raddr |-> raddr, labels |-> labels]
           ELSE [st |-> "ok", msg |-> "", raddr |-> raddr,
                 labels |-> (cl.label :> (IF cl.instr = label
                                          THEN raddr % 256
                                          ELSE cl.value)) @@ labels]
      [] cl.instr \in NoOperand \cup WithOperand \cup {dotByte} ->
           [st |-> "ok", msg |-> "", raddr |-> raddr + 1, labels |-> labels]
      [] cl.instr = dotOrg ->
           [st |-> "ok", msg |-> "", raddr |-> cl.value, labels |-> labels]
      [] OTHER ->
           [st |-> "ok", msg |-> "", raddr |-> raddr, labels |-> labels]

\* the loop of mapLabels from the k-th codeline on
RECURSIVE mapLabelsFrom(_, _, _, _)
mapLabelsFrom(cls, k, raddr, labels) ==
    IF k > Len(cls) THEN [st |-> "ok", msg |-> "", labels |-> labels]
    ELSE CHOOSE t \in
           {IF r.st # "ok" THEN [st |-> r.st, msg |-> r.msg, labels |-> labels]
            ELSE mapLabelsFrom(cls, k + 1, r.raddr, r.labels) :
              r \in {mapLabel(cls[k], raddr, labels)}} : TRUE

\* mapLabels(cls)
mapLabels(cls) == mapLabelsFrom(cls, 1, 0, [n \in {} |-> 0])

\* the register address is free: the checks before a byte is stored
AddrError(a) ==
    IF a.raddr > 15 THEN "program exceeds registry size"
    ELSE IF a.used[a.raddr] THEN "registry address conflict"
    ELSE ""

\* the byte b is stored at the register address, which moves on
Store(a, b) ==
    [a EXCEPT !.bin[a.raddr] = b, !.used[a.raddr] = TRUE,
              !.raddr = a.raddr + 1]

\* cl.assembleLn(reg, &raddr, used, labels) on a = (reg, raddr, used)
assembleLn(cl, a, labels) ==
    CASE cl.instr \in NoOperand ->
           IF AddrError(a) # ""
           THEN [a EXCEPT !.st = "err", !.msg = AddrError(a)]
           ELSE Store(a, cl.instr)
      [] cl.instr \in WithOperand ->
           IF AddrError(a) # ""
           THEN [a EXCEPT !.st = "err", !.msg = AddrError(a)]
           ELSE IF cl.label = <<>>
           THEN Store(a, orb(cl.instr, lo(cl.value)))
           ELSE IF cl.label \notin DOMAIN labels
           THEN [a EXCEPT !.st = "err", !.msg = "Unknown symbol"]
           ELSE IF labels[cl.label] > 15
           THEN [a EXCEPT !.st = "err",
                          !.msg = "symbol holds value greater than 15"]
           ELSE Store(a, orb(cl.instr, lo(labels[cl.label])))
      [] cl.instr = dotOrg -> [a EXCEPT !.raddr = cl.value]
      [] cl.instr = dotByte ->
           IF AddrError(a) # ""
           THEN [a EXCEPT !.st = "err", !.msg = AddrError(a)]
           ELSE Store(a, cl.value)
      [] OTHER -> a

\* the loop of assemble from the k-th codeline on
RECURSIVE assembleFrom(_, _, _, _)
assembleFrom(cls, k, a, labels) ==
    IF k > Len(cls) \/ a.st # "ok" THEN a
    ELSE CHOOSE t \in {assembleFrom(cls, k + 1, r, labels) :
                         r \in {assembleLn(cls[k], a, labels)}} : TRUE

\* assemble(cls): the binary as a sequence of 16 bytes, or nil (<<>>) with
\* the error
assemble(cls) ==
    LET m == mapLabels(cls)
        a == assembleFrom(cls, 1,
                          [st |-> "ok", msg |-> "", raddr |-> 0,
                           bin |-> [i \in 0..15 |-> 0],
                           used |-> [i \in 0..15 |-> FALSE]],
                          m.labels)
    IN  IF m.st # "ok" THEN [st |-> m.st, msg |-> m.msg, bin |-> <<>>]
        ELSE IF a.st # "ok" THEN [st |-> a.st, msg |-> a.msg, bin |-> <<>>]
        ELSE [st |-> "ok", msg |-> "", bin |-> [i \in 1..16 |-> a.bin[i - 1]]]

\* Assemble(src)
Assemble(src) ==
    LET d == decode(src)
    IN  IF d.st # "ok" THEN [st |-> d.st, msg |-> d.msg, bin |-> <<>>]
        ELSE assemble(d.cls)
(***************************************************************************)
(* Assembler sources.  A source is described line by line (what the line  *)
(* is, its mnemonic, its parameters as numbers in a base or names) and     *)
(* written out as the text the assembler reads.                            *)
(***************************************************************************)
Lit(v, b) == [t |-> "lit", v |-> v, b |-> b]

Name(n) == [t |-> "name", n |-> n]

Instr(mn, ps) == [k |-> "instr", mn |-> mn, ps |-> ps]

Sym(n, l) == [k |-> "sym", n |-> n, v |-> l]

Lab(n) == [k |-> "label", n |-> n]

Org(l) == [k |-> "org", v |-> l]

\* the digits of n in base b
RECURSIVE NumText(_, _)
NumText(n, b) ==
    LET d == <<"0", "1", "2", "3", "4", "5", "6", "7", "8", "9",
               "a", "b", "c", "d", "e", "f">>[(n % b) + 1]
    IN  IF n < b THEN <<d>> ELSE NumText(n \div b, b) \o <<d>>

\* 15 is written 15, $f or %1111
LitText(l) ==
    (CASE l.b = 16 -> <<"$">> [] l.b = 2 -> <<"%">> [] OTHER -> <<>>)
      \o NumText(l.v, l.b)

RECURSIVE ParamsText(_)
ParamsText(ps) ==
    IF ps = <<>> THEN <<>>
    ELSE <<" ">> \o (IF ps[1].t = "lit" THEN LitText(ps[1]) ELSE ps[1].n)
           \o ParamsText(Tail(ps))

\* instructions and directives after a space, symbols and labels at the
\* first character of the line
LineText(d) ==
    CASE d.k = "instr" -> <<" ">> \o d.mn \o ParamsText(d.ps)
      [] d.k = "sym" -> d.n \o <<"=">> \o LitText(d.v)
      [] d.k = "label" -> d.n \o <<":">>
      [] d.k = "org" -> <<" ", ".", "o", "r", "g", " ">> \o LitText(d.v)

RECURSIVE SrcText(_)
SrcText(ds) ==
    IF ds = <<>> THEN <<>>
    ELSE LineText(ds[1]) \o <<"\n">> \o SrcText(Tail(ds))

\* the lines of the sources: operands up to and over 15 in the three bases,
\* names of symbols and of a label, symbols up to and over 15, a label, its
\* address set over 15, instructions with too few and too many parameters
Lines ==
    { Instr(<<"l", "d", "i">>, <<Lit(15, 16)>>),
      Instr(<<"l", "d", "a">>, <<Lit(16, 10)>>),
      Instr(<<"a", "d", "d">>, <<Lit(16, 16)>>),
      Instr(<<"s", "t", "a">>, <<Lit(16, 2)>>),
      Instr(<<"j", "m", "p">>, <<Name(<<"x">>)>>),
      Instr(<<"L", "D", "A">>, <<Name(<<"y">>)>>),
      Instr(<<"j", "c">>, <<Name(<<"b", "i", "g">>)>>),
      Instr(<<"j", "z">>, <<Name(<<"e", "n", "d">>)>>),
      Sym(<<"x">>, Lit(3, 10)),
      Sym(<<"y">>, Lit(12, 16)),
      Sym(<<"b", "i", "g">>, Lit(16, 10)),
      Lab(<<"e", "n", "d">>),
      Org(Lit(16, 10)),
      Instr(<<"s", "u", "b">>, <<>>),
      Instr(<<"l", "d", "i">>, <<Lit(1, 10), Lit(2, 10)>>),
      Instr(<<"j", "c">>, <<Name(<<"x">>), Lit(2, 10)>>),
      Instr(<<"h", "l", "t">>, <<>>) }

Sources == UNION {[1..n -> Lines] : n \in 0..MaxLines}

\* bin, err := assembler.Assemble(src)
AssembleCall ==
    /\ pc = "idle"
    /\ op = "NewBBCpu"
    /\ \E ds \in Sources :
         /\ arg' = ds
         /\ ret' = Assemble(SrcText(ds))
    /\ op' = "Assemble"
    /\ UNCHANGED <<boards, pc, rstTicks, writes, ticks>>

NextAsm == AssembleCall

SpecAsm == Init /\ [][NextAsm]_vars
\* the line is an instruction that takes an operand
TakesOperand(d) == d.k = "instr" /\ InstrOf(ToLower(d.mn)) \in WithOperand

\* every instruction of the source has the number of parameters it takes
CountsRight(ds) ==
    \A i \in 1..Len(ds) :
      ds[i].k = "instr" =>
        Len(ds[i].ps) = IF TakesOperand(ds[i]) THEN 1 ELSE 0

\* the name stands for a value over 15: a symbol defined so, or a label on
\* the line after an .org to an address over 15
BigName(ds, n) ==
    \E i \in 1..Len(ds) :
      \/ ds[i].k = "sym" /\ ds[i].n = n /\ ds[i].v.v > 15
      \/ /\ ds[i].k = "label" /\ ds[i].n = n
         /\ i > 1 /\ ds[i - 1].k = "org" /\ ds[i - 1].v.v > 15

\* the line is an instruction whose operand exceeds 15
BigOperand(d, ds) ==
    /\ TakesOperand(d) /\ Len(d.ps) = 1
    /\ IF d.ps[1].t = "lit" THEN d.ps[1].v > 15 ELSE BigName(ds, d.ps[1].n)

UsesSymbols(ds) ==
    /\ \A i \in 1..Len(ds) : ds[i].k \in {"sym", "instr"}
    /\ CountsRight(ds)
    /\ \A i \in 1..Len(ds) :
         ds[i].k = "sym" =>
           /\ ds[i].v.v <= 15
           /\ \A j \in 1..Len(ds) :
                (j # i /\ ds[j].k = "sym") => ds[j].n # ds[i].n
    /\ \A i \in 1..Len(ds) :
         TakesOperand(ds[i]) =>
           IF ds[i].ps[1].t = "lit" THEN ds[i].ps[1].v <= 15
           ELSE \E j \in 1..Len(ds) :
                  ds[j].k = "sym" /\ ds[j].n = ds[i].ps[1].n
    /\ \E i \in 1..Len(ds) : TakesOperand(ds[i]) /\ ds[i].ps[1].t = "name"

\* the value the operand stands for in such a source
ValueOf(ds, p) ==
    IF p.t = "lit" THEN p.v
    ELSE ds[CHOOSE j \in 1..Len(ds) : ds[j].k = "sym" /\ ds[j].n = p.n].v.v

IsInstr(d) == d.k = "instr"

\* the byte the instruction line stands for: opcode | value
ByteOf(ds, d) ==
    IF TakesOperand(d) THEN orb(InstrOf(ToLower(d.mn)), ValueOf(ds, d.ps[1]))
    ELSE InstrOf(ToLower(d.mn))

\* C19: for every source that defines symbols by 'name=value' lines (value
\* up to 15, several distinct ones allowed) and passes them by name as
\* operands of instructions anywhere in the source, Assemble returns the
\* binary whose bytes are opcode | value, instruction by instruction.
C19_SymbolsByName ==
    (op = "Assemble" /\ UsesSymbols(arg)) =>
      /\ ret.st = "ok"
      /\ \A k \in 1..16 :
           ret.bin[k] = IF k <= Len(SelectSeq(arg, IsInstr))
                        THEN ByteOf(arg, SelectSeq(arg, IsInstr)[k])
                        ELSE 0

\* C20: for every source that holds an instruction taking an operand with a
\* number of parameters other than one, Assemble returns an error and no
\* binary (it does not panic and does not leave the line out).
C20_WrongParameterCountRejected ==
    (/\ op = "Assemble"
     /\ \E i \in 1..Len(arg) : TakesOperand(arg[i]) /\ Len(arg[i].ps) # 1) =>
      (ret.st = "err" /\ ret.bin = <<>>)
(***************************************************************************)
(* Every board with a clear input alone: the three registers, the program  *)
(* counter and the ALU; a behaviour drives one board (SpecClr)             *)
(***************************************************************************)
NextClr ==
    \/ RegTick
    \/ IregTick
    \/ Reg4Tick
    \/ CtrTick
    \/ AluTick

SpecClr == Init /\ [][NextClr]_vars

\* C22: after a tick of a board with clear asserted, whatever the clock
\* edge, enable-in, load, count-enable and flag-input of the tick, the
\* buffer of the register (of each of the three variants) is 0, the program
\* counter is 0 and the committed carry and zero flags of the ALU are false;
\* and a register with enable-out asserted too has driven 0 onto the bus.
C22_ClearOverrides ==
    /\ (op = "RegExec" /\ CL.CLR) => (Areg.BUF = 0 /\ (CL.AO => BUS = 0))
    /\ (op = "IregExec" /\ CL.CLR) => (IR.BUF = 0 /\ (CL.IO => BUS = 0))
    /\ (op = "Reg4Exec" /\ CL.CLR) => MAR.BUF = 0
    /\ (op = "CtrExec" /\ CL.CLR) => PC.CNT = 0
    /\ (op = "AluExec" /\ CL.CLR) => (~ALU.CF /\ ~ALU.ZF)

C22_Witness ==
    /\ op = "CtrExec" /\ CL.CLR /\ PC.clkre /\ CL.J /\ CL.CE /\ arg = 154
    /\ PC.CNT = 0 /\ CL.CO /\ BUS = 0
(***************************************************************************)
(* The boards behind the control logic driven by hand: at any point of the *)
(* run of the multiplication program the user sets the clock level and the *)
(* control signals and executes the boards from the A register to the      *)
(* instruction register in the order of BBCpu.Exec (SpecBus)               *)
(***************************************************************************)
OutSignals == {"AO", "EO", "RO", "CO", "IO"}

InSignals == {"AI", "BI", "OI", "MI", "II", "RI", "J", "CE", "FI"}

\* the control logic with exactly the signals of sigs asserted
Drive(c, sigs) ==
    [c EXCEPT !.AI = "AI" \in sigs, !.AO = "AO" \in sigs,
              !.BI = "BI" \in sigs, !.OI = "OI" \in sigs,
              !.MI = "MI" \in sigs, !.II = "II" \in sigs,
              !.IO = "IO" \in sigs, !.EO = "EO" \in sigs,
              !.SU = "SU" \in sigs, !.FI = "FI" \in sigs,
              !.CO = "CO" \in sigs, !.J = "J" \in sigs,
              !.CE = "CE" \in sigs, !.RI = "RI" \in sigs,
              !.RO = "RO" \in sigs]

\* c.HalfStep() while the boards have not been driven by hand
BusRun ==
    /\ op # "BusTick"
    /\ HalfStep

\* the clock level and the signals set by hand, then Areg.Exec() ...
\* IR.Exec() in the order of BBCpu.Exec
BusTick ==
    /\ pc = "idle"
    /\ op \in {"Write", "HalfStep"}
    /\ \E clk \in BOOLEAN, outs \in SUBSET OutSignals,
          ins \in {{}, InSignals, InSignals \cup {"SU"}} :
         \E t \in {ExecFrom(3, [cpu EXCEPT !.CLK.CLK = clk,
                                            !.CL = Drive(CL, outs \cup ins)])} :
           SetCpu(t)
    /\ op' = "BusTick"
    /\ UNCHANGED <<pc, rstTicks, writes, ticks, arg, ret>>

NextBus ==
    \/ MulLoad
    \/ BusRun
    \/ BusTick

SpecBus == Init /\ [][NextBus]_vars

\* the value of the last board, in the order A register, ALU, memory,
\* program counter, instruction register, whose output enable is asserted
\* in s, and prev if none is
LastDriven(s, prev) ==
    IF s.CL.IO THEN lo(s.IR.BUF)
    ELSE IF s.CL.CO THEN s.PC.CNT
    ELSE IF s.CL.RO THEN s.RAM.MEM[s.MAR.BUF]
    ELSE IF s.CL.EO THEN s.ALU.BUF
    ELSE IF s.CL.AO THEN s.Areg.BUF
    ELSE prev

\* C23: after a tick of the boards with any set of output enables asserted
\* the bus holds the value driven by the last asserted driver in the order
\* A register, ALU, memory, program counter, instruction register, and the
\* value it held before the tick if no output enable is asserted.
C23_LastWriterWins ==
    [][op' = "BusTick" => BUS' = LastDriven(cpu', BUS)]_vars

C23_Witness ==
    /\ op = "BusTick" /\ CL.AO /\ CL.EO /\ CL.RO /\ CL.CO /\ ~CL.IO
    /\ BUS = PC.CNT /\ BUS # Areg.BUF /\ BUS # ALU.BUF
    /\ BUS # RAM.MEM[MAR.BUF]
(***************************************************************************)
(* Reset at any point of the stepping of a program and the fetch that      *)
(* follows it; ticks counts the calls of Exec since the return of Reset    *)
(* while the instruction register has not been loaded again, and is 0      *)
(* otherwise (SpecRst)                                                     *)
(***************************************************************************)
\* the instruction register captured the bus in the tick that led to s
Fetched(s) == s.IR.clkre /\ s.CL.II

\* c.Reset()
RstReset ==
    /\ pc = "idle"
    /\ \E t \in {BBCpuReset(cpu)} : SetCpu(t)
    /\ op' = "Reset"
    /\ rstTicks' = 2
    /\ ticks' = 1
    /\ UNCHANGED <<pc, writes, arg, ret>>

\* c.HalfStep()
RstTick ==
    /\ pc = "idle"
    /\ \E t \in {BBCpuExec(cpu)} :
         /\ SetCpu(t)
         /\ ticks' = IF ticks = 0 \/ Fetched(t) THEN 0 ELSE ticks + 1
    /\ op' = "HalfStep"
    /\ rstTicks' = Ticked(1)
    /\ UNCHANGED <<pc, writes, arg, ret>>

NextRst ==
    \/ Write
    \/ RstTick
    \/ RstReset

SpecRst == Init /\ [][NextRst]_vars

\* C24: in the first tick after a Reset in which the instruction register
\* is loaded, the address register holds 0 and the instruction register
\* receives memory cell 0, whatever the state Reset was called in.
C24_FirstFetchFromZero ==
    [][(ticks > 0 /\ op' = "HalfStep" /\ Fetched(cpu')) =>
         (MAR'.BUF = 0 /\ IR'.BUF = RAM'.MEM[0])]_vars
(***************************************************************************)
(* A program stepped tick by tick from the fresh CPU, the ticks counted in *)
(* tens: ticks is the number of calls of Exec since the last instruction   *)
(* boundary (10 at a boundary that ten ticks led to, 0 on the fresh CPU    *)
(* and after the bulk load) and arg the registers, flags, memory and program *)
(* counter at that boundary (SpecRef)                                      *)
(***************************************************************************)
RefImages == {MulProgram, Src2, AllOps}

\* what the instruction-level machine sees of the CPU
Arch(s) ==
    [A |-> s.Areg.BUF, B |-> s.Breg.BUF, O |-> s.Oreg.BUF,
     CF |-> s.ALU.CF, ZF |-> s.ALU.ZF, MEM |-> s.RAM.MEM,
     PC |-> s.PC.CNT, HLT |-> s.CL.HLT]

\* c.RAM.Write(p), once, on the fresh CPU or at an instruction boundary of
\* its run on the empty memory
RefLoad ==
    /\ pc = "idle"
    /\ ticks \in {0, 10}
    /\ writes = 0
    /\ \E p \in RefImages : RAM' = MemWrite(RAM, p)
    /\ op' = "Write"
    /\ writes' = writes + 1
    /\ ticks' = 0
    /\ UNCHANGED <<CLK, CL, Areg, Breg, Oreg, ALU, MAR, PC, IR, BUS,
                   pc, rstTicks, arg, ret>>

\* c.HalfStep()
RefTick ==
    /\ pc = "idle"
    /\ \E t \in {BBCpuExec(cpu)} : SetCpu(t)
    /\ op' = "HalfStep"
    /\ rstTicks' = Ticked(1)
    /\ ticks' = IF ticks = 10 THEN 1 ELSE ticks + 1
    /\ arg' = IF ticks \in {0, 10} THEN Arch(cpu) ELSE arg
    /\ UNCHANGED <<pc, writes, ret>>

NextRef ==
    \/ RefLoad
    \/ RefTick

SpecRef == Init /\ [][NextRef]_vars

\* one step of the instruction-level machine from a: the instruction at
\* address a.PC with its operand n
IsaStep(a) ==
    LET inst == a.MEM[a.PC]
        n == inst % 16
        next == (a.PC + 1) % 16
    IN  CASE inst \div 16 = 1 -> [a EXCEPT !.A = a.MEM[n], !.PC = next]
          [] inst \div 16 = 2 ->
               [a EXCEPT !.B = a.MEM[n], !.A = (a.A + a.MEM[n]) % 256,
                         !.CF = (a.A + a.MEM[n] > 255),
                         !.ZF = ((a.A + a.MEM[n]) % 256 = 0), !.PC = next]
          [] inst \div 16 = 3 ->
               [a EXCEPT !.B = a.MEM[n], !.A = (a.A - a.MEM[n]) % 256,
                         !.CF = (a.A < a.MEM[n]),
                         !.ZF = ((a.A - a.MEM[n]) % 256 = 0), !.PC = next]
          [] inst \div 16 = 4 -> [a EXCEPT !.MEM[n] = a.A, !.PC = next]
          [] inst \div 16 = 5 -> [a EXCEPT !.A = n, !.PC = next]
          [] inst \div 16 = 6 -> [a EXCEPT !.PC = n]
          [] inst \div 16 = 7 -> [a EXCEPT !.PC = IF a.CF THEN n ELSE next]
          [] inst \div 16 = 8 -> [a EXCEPT !.PC = IF a.ZF THEN n ELSE next]
          [] inst \div 16 = 14 -> [a EXCEPT !.O = a.A, !.PC = next]
          [] inst \div 16 = 15 -> [a EXCEPT !.HLT = TRUE, !.PC = next]
          [] OTHER -> [a EXCEPT !.PC = next]

\* C25: ten ticks from the fresh CPU or from an instruction boundary that
\* tens of ticks led to, not halted, take the registers A, B and output, the
\* committed flags, the memory, the program counter and the halt latch to
\* what one step of the instruction-level machine makes of them: the effect
\* of the instruction at the address in the program counter and nothing
\* else.
C25_TicksRefineInstructions ==
    (ticks = 10 /\ ~arg.HLT) => Arch(cpu) = IsaStep(arg)

C25_Witness ==
    /\ ticks = 10 /\ ~arg.HLT /\ arg.MEM[arg.PC] \div 16 = 4
    /\ RAM.MEM # arg.MEM /\ RAM.MEM[arg.MEM[arg.PC] % 16] = Areg.BUF
    /\ PC.CNT = (arg.PC + 1) % 16
(***************************************************************************)
(* The halted CPU (Spec)                                                   *)
(***************************************************************************)
\* C26: a tick of the CPU with the halt latch asserted and the reset latch
\* not leaves the halt latch asserted and the clock low, and leaves the
\* micro-step counter, the program counter, the buffers of all registers,
\* the committed flags, the memory and the bus as they were.
C26_HaltFreezes ==
    [][(op' \in TickOps /\ CL.HLT /\ ~CL.CLR) =>
         /\ CL'.HLT /\ ~CLK'.CLK
         /\ CL'.Cnt = CL.Cnt /\ PC'.CNT = PC.CNT
         /\ Areg'.BUF = Areg.BUF /\ Breg'.BUF = Breg.BUF
         /\ Oreg'.BUF = Oreg.BUF /\ MAR'.BUF = MAR.BUF
         /\ IR'.BUF = IR.BUF
         /\ ALU'.CF = ALU.CF /\ ALU'.ZF = ALU.ZF
         /\ RAM'.MEM = RAM.MEM
         /\ BUS' = BUS]_vars

C26_Witness ==
    /\ op \in TickOps /\ CL.HLT /\ ~CL.clkfe /\ ~CLK.CLK /\ ~CL.CLR
    /\ Oreg.BUF # 0 /\ BUS # 0 /\ PC.CNT # 0
(***************************************************************************)
(* What changes the memory (Spec)                                          *)
(***************************************************************************)
\* C27: a call of Exec changes the memory only on a rising clock edge at
\* micro-step 3 of a store-A instruction (opcode 4), and then no cell but
\* the one the address register addresses, which takes the value of the A
\* register; the two ticks of Reset leave all 16 cells as they were, and so
\* does Ctrl.Reset.
C27_OnlyStoreWrites ==
    [][/\ (op' \in TickOps /\ RAM'.MEM # RAM.MEM) =>
            /\ Rise /\ CL'.Cnt = 3 /\ hi(IR.BUF) = 4
            /\ \A i \in 0..15 : i # MAR.BUF => RAM'.MEM[i] = RAM.MEM[i]
            /\ RAM'.MEM[MAR.BUF] = Areg.BUF
       /\ op' \in {"Reset", "CtrlReset", "RunCall", "RunReturn",
                    "InstructionReturn"} => RAM'.MEM = RAM.MEM]_vars

C27_Witness ==
    /\ op \in TickOps /\ RAM.clkre /\ CL.RI /\ CL.Cnt = 3 /\ hi(IR.BUF) = 4
    /\ MAR.BUF = 13 /\ RAM.MEM[13] = 15 /\ RAM.MEM[0] = AllOps[1]
(***************************************************************************)
(* The rhythm of free running (SpecRef)                                    *)
(***************************************************************************)
\* the tick, made with the halt latch deasserted, toggled the clock; on a
\* falling edge it advanced the micro-step by one modulo 5 and on a rising
\* edge it left it; it loaded the instruction register, and incremented the
\* program counter, iff it was the rising edge of micro-step 1
Rhythm ==
    /\ CLK'.CLK = ~CLK.CLK
    /\ CL'.Cnt = IF Fall THEN (CL.Cnt + 1) % 5 ELSE CL.Cnt
    /\ Fetched(cpu') <=> (Rise /\ CL'.Cnt = 1)
    /\ (PC'.clkre /\ CL'.CE) <=> (Rise /\ CL'.Cnt = 1)
    /\ PC'.CNT # PC.CNT =>
         ((Rise /\ CL'.Cnt = 1) \/ (Rise /\ CL'.Cnt = 2 /\ CL'.J))

\* a micro-step 0 with the clock low begins exactly every ten ticks
TenTicks ==
    ~CL'.HLT => ((CL'.Cnt = 0 /\ ~CLK'.CLK) <=> ticks' = 10)

\* C28 as stated: in every tick of free running the clock toggles, a
\* clock-low tick begins the next micro-step and the clock-high tick that
\* follows it keeps the micro-step and has the same signals asserted, so
\* that micro-step 0 begins every ten ticks whatever the opcode, and the
\* instruction register is loaded and the program counter incremented on
\* the rising edge of micro-step 1 and in no other tick.
C28_TwoTicksPerMicroStep ==
    [][(op' = "HalfStep" /\ ~CL.HLT) =>
         /\ Rhythm
         /\ TenTicks
         /\ Rise => Asserted(CL') = Asserted(CL)]_vars

\* C28 as amended: the same, except that micro-step 0 of the first
\* instruction on a new CPU has its clock-high tick only: the first tick is
\* a rising edge that asserts counter-out and address-in with no clock-low
\* tick with these signals before it (the first instruction lasts nine
\* ticks, and micro-step 0 begins every ten ticks from the construction).
C28_TwoTicksAfterFirst ==
    [][(op' = "HalfStep" /\ ~CL.HLT) =>
         /\ Rhythm
         /\ TenTicks
         /\ (Rise /\ CL # NewCtrl) => Asserted(CL') = Asserted(CL)
         /\ CL = NewCtrl =>
              (Rise /\ CL'.Cnt = 0 /\ Asserted(CL') = {"CO", "MI"})]_vars

C28_Witness ==
    /\ op = "HalfStep" /\ ticks = 3 /\ CLK.CLK /\ CL.Cnt = 1 /\ Fetched(cpu)
    /\ arg.PC = 12 /\ PC.CNT = 13 /\ IR.BUF = arg.MEM[12] /\ ~CL.HLT
====
